---- MODULE Spec2Model ----
(***************************************************************************)
(* Model of scr (github.com/yarlson/scr): the capture engine of            *)
(* internal/capture (Capturer.Run, executeActions and the periodic         *)
(* screenshot goroutine) and the key mapping of internal/input.            *)
(*                                                                         *)
(* Go strings are sequences of bytes; a byte is written as a one-character *)
(* string ("a", " ") or by its hex name ("0x09"; also "0x22" for the       *)
(* double quote and "0x60" for the backquote).                             *)
(* Time is abstract: a timer or ticker may fire at any moment after it was *)
(* armed.  A Go select is modelled as the runtime executes it: cases that  *)
(* are ready when the select is evaluated are chosen among freely; a       *)
(* goroutine parked in a select is woken by the first case that becomes    *)
(* ready, and that case is the one it then runs.                           *)
(***************************************************************************)
EXTENDS Integers, Sequences, FiniteSets, TLC

VARIABLES
    cfg,              \* c.config: Actions, Keypresses, Delays, ScreenshotInterval
    ctxErr,           \* ctx.Err(): <<>> while the context is live
    pc,               \* position of the goroutine running Run
    ai,               \* index of the current action / legacy key (1-based)
    ci,               \* index of the current character / repeat (1-based)
    wk,               \* which wait the engine is in
    wstate,           \* state of the engine's select: "", select, blocked, wokeDone, wokeTimer
    timerFired,       \* the time.After channel of the current wait holds a value
    perr,             \* error being returned through the dispatch-failure path
    returned,         \* Run has returned
    result,           \* the error chain Run returned (<<>> is nil)
    endedBy,          \* why the run ended: "", "ok", "ctx", "renderer", "other"
    ttyd,             \* "new", "started", "stopped"
    stopChan,         \* intervalStopChan: "nil", "open", "closed"
    wg,               \* sync.WaitGroup counter
    ptask,            \* position of the periodic-capture goroutine
    tickPending,      \* ticker.C (capacity 1) holds a tick
    ticks,            \* ticks delivered so far
    diag,             \* "Failed to capture interval screenshot" diagnostics so far
    mu,               \* c.mu: "" or the goroutine holding it
    screenshotCount,  \* c.screenshotCount
    fpc,              \* per goroutine: position inside getScreenshotFilename
    fname,            \* per goroutine: filename returned by getScreenshotFilename
    issued,           \* filenames returned by getScreenshotFilename, in order of return
    sent,             \* Renderer input calls issued, in order
    shots,            \* captureScreenshot calls started, in order
    files,            \* filenames written by os.WriteFile
    ops,              \* steps of the engine, in order: exec, check, send, wait, elapsed
    input,            \* the script text handed to script.Parse
    parser,           \* the parser p: curToken, peekToken, its lexer and the tokens read
    pactions,         \* the local slice `actions` of Parse
    ppc,              \* position of Parse and its caller: "idle", "new", "loop", "done", "reported"
    ret,              \* what Parse returned: the actions and the error
    report            \* the text of the error the command returns for the script

vars == <<cfg, ctxErr, pc, ai, ci, wk, wstate, timerFired, perr, returned, result,
          endedBy, ttyd, stopChan, wg, ptask, tickPending, ticks, diag, mu,
          screenshotCount, fpc, fname, issued, sent, shots, files, ops,
          input, parser, pactions, ppc, ret, report>>

(***************************************************************************)
(* Bounds of the model.                                                    *)
(***************************************************************************)
\* ticks the ticker delivers during one run
MaxTicks == 2

\* the delay before the final screenshot, in milliseconds
SettleDelay == 100

(***************************************************************************)
(* Bytes and strings.                                                      *)
(***************************************************************************)
\* the printable ASCII bytes 0x20..0x7e, in code order
AsciiPrintable ==
    <<" ", "!", "0x22", "#", "$", "%", "&", "'", "(", ")", "*", "+", ",", "-", ".", "/",
      "0", "1", "2", "3", "4", "5", "6", "7", "8", "9", ":", ";", "<", "=", ">", "?",
      "@", "A", "B", "C", "D", "E", "F", "G", "H", "I", "J", "K", "L", "M", "N", "O",
      "P", "Q", "R", "S", "T", "U", "V", "W", "X", "Y", "Z", "[", "\\", "]", "^", "_",
      "0x60", "a", "b", "c", "d", "e", "f", "g", "h", "i", "j", "k", "l", "m", "n", "o",
      "p", "q", "r", "s", "t", "u", "v", "w", "x", "y", "z", "{", "|", "}", "~">>

\* bytes outside printable ASCII that the model uses
OtherBytes == [b \in {"0x00", "0x09", "0x0A", "0x0D", "0xC3", "0xA9"} |->
                 CASE b = "0x00" -> 0 [] b = "0x09" -> 9 [] b = "0x0A" -> 10 [] b = "0x0D" -> 13
                   [] b = "0xC3" -> 195 [] b = "0xA9" -> 169]

\* the numeric value of a byte
Ord(b) ==
    IF b \in DOMAIN OtherBytes THEN OtherBytes[b]
    ELSE 31 + (CHOOSE i \in DOMAIN AsciiPrintable : AsciiPrintable[i] = b)

\* the byte with a numeric value in the printable range
Chr(n) == AsciiPrintable[n - 31]

\* strings.ToLower on one byte (ASCII letters only)
LowerByte(b) ==
    IF b \notin DOMAIN OtherBytes /\ Ord(b) >= 65 /\ Ord(b) <= 90 THEN Chr(Ord(b) + 32) ELSE b

ToLower(s) == [i \in DOMAIN s |-> LowerByte(s[i])]

HasPrefix(s, p) == Len(s) >= Len(p) /\ SubSeq(s, 1, Len(p)) = p

\* string literals of the source
sEnter == <<"E", "n", "t", "e", "r">>
sDown == <<"D", "o", "w", "n">>
sSpace == <<"S", "p", "a", "c", "e">>
sCtrlPlus == <<"c", "t", "r", "l", "+">>

\* specialKeyCodes: lowercased key name -> CDP key code
specialKeyCodes ==
    { << <<"e","n","t","e","r">>, sEnter >>,
      << <<"e","s","c","a","p","e">>, <<"E","s","c","a","p","e">> >>,
      << <<"t","a","b">>, <<"T","a","b">> >>,
      << <<"s","p","a","c","e">>, sSpace >>,
      << <<"u","p">>, <<"A","r","r","o","w","U","p">> >>,
      << <<"d","o","w","n">>, <<"A","r","r","o","w","D","o","w","n">> >>,
      << <<"l","e","f","t">>, <<"A","r","r","o","w","L","e","f","t">> >>,
      << <<"r","i","g","h","t">>, <<"A","r","r","o","w","R","i","g","h","t">> >>,
      << <<"h","o","m","e">>, <<"H","o","m","e">> >>,
      << <<"e","n","d">>, <<"E","n","d">> >>,
      << <<"p","a","g","e","u","p">>, <<"P","a","g","e","U","p">> >>,
      << <<"p","a","g","e","d","o","w","n">>, <<"P","a","g","e","D","o","w","n">> >>,
      << <<"b","a","c","k","s","p","a","c","e">>, <<"B","a","c","k","s","p","a","c","e">> >>,
      << <<"d","e","l","e","t","e">>, <<"D","e","l","e","t","e">> >>,
      << <<"c","t","r","l","+","c">>, <<"c">> >>,
      << <<"c","t","r","l","+","d">>, <<"d">> >> }

isSinglePrintableASCII(key) ==
    /\ Len(key) = 1
    /\ Ord(key[1]) >= 32
    /\ Ord(key[1]) <= 126

\* a mapping that sends the space character as itself
KeyToKeyCode_SpaceAsItself(key) ==
    IF isSinglePrintableASCII(key)
    THEN [ok |-> TRUE, code |-> key]
    ELSE IF \E e \in specialKeyCodes : e[1] = ToLower(key)
         THEN [ok |-> TRUE, code |-> (CHOOSE e \in specialKeyCodes : e[1] = ToLower(key))[2]]
         ELSE [ok |-> FALSE, code |-> <<>>]

\* a key table without the entries space, pageup and pagedown
KeyToKeyCode_NoPaging(key) ==
    LET table == {e \in specialKeyCodes :
                     e[1] \notin { <<"s","p","a","c","e">>, <<"p","a","g","e","u","p">>,
                                   <<"p","a","g","e","d","o","w","n">> }}
    IN IF isSinglePrintableASCII(key)
       THEN IF key = <<" ">> THEN [ok |-> TRUE, code |-> sSpace]
            ELSE [ok |-> TRUE, code |-> key]
       ELSE IF \E e \in table : e[1] = ToLower(key)
            THEN [ok |-> TRUE, code |-> (CHOOSE e \in table : e[1] = ToLower(key))[2]]
            ELSE [ok |-> FALSE, code |-> <<>>]

\* KeyToKeyCode: [ok, code]; ok = FALSE is the "not recognized" error
KeyToKeyCode(key) ==
    IF isSinglePrintableASCII(key)
    THEN IF key = <<" ">> THEN [ok |-> TRUE, code |-> sSpace]
         ELSE [ok |-> TRUE, code |-> key]
    ELSE IF \E e \in specialKeyCodes : e[1] = ToLower(key)
         THEN [ok |-> TRUE, code |-> (CHOOSE e \in specialKeyCodes : e[1] = ToLower(key))[2]]
         ELSE [ok |-> FALSE, code |-> <<>>]

isCtrlKey(key) == HasPrefix(ToLower(key), sCtrlPlus) /\ Len(ToLower(key)) = 6

(***************************************************************************)
(* Errors.  An error is the chain of its layers, outermost first; nil is   *)
(* the empty chain.                                                        *)
(***************************************************************************)
Canceled == "context canceled"
DeadlineExceeded == "context deadline exceeded"
RendererBroke == "renderer error"
NotRecognized == "key is not recognized"
InvalidCtrl == "invalid Ctrl key format"
OsError == "os error"

\* fmt.Errorf("<prefix>: %v", err): the cause is only text, not part of the chain
Wrap_Opaque(prefix, err) == <<prefix>>

\* fmt.Errorf("<prefix>: %w", err)
Wrap(prefix, err) == <<prefix>> \o err

\* errors.Is(err, target)
ErrorsIs(err, target) == \E i \in DOMAIN err : err[i] = target

IsCancelled(err) == ErrorsIs(err, Canceled) \/ ErrorsIs(err, DeadlineExceeded)

(***************************************************************************)
(* The action model (script.Action) and the configurations explored.       *)
(***************************************************************************)
ActionType == 0
ActionSleep == 1
ActionKey == 2
ActionCtrl == 3

\* script.Action{...}; durations are in milliseconds
Action(kind, text, key, duration, speed, delay, repeat) ==
    [Kind |-> kind, Text |-> text, Key |-> key, Duration |-> duration,
     Speed |-> speed, Delay |-> delay, Repeat |-> repeat]

TypeA(text, speed, delay) == Action(ActionType, text, <<>>, 0, speed, delay, 0)
SleepA(d) == Action(ActionSleep, <<>>, <<>>, d, 0, 0, 0)
KeyA(key, delay, repeat) == Action(ActionKey, <<>>, key, 0, 0, delay, repeat)
CtrlA(key) == Action(ActionCtrl, <<>>, key, 0, 0, 0, 0)

\* a Text is the sequence of its runes, each rune being the string string(char)
Scripts ==
    { <<>>,
      << SleepA(1000), TypeA(<< <<"l">>, <<"s">> >>, 50, 0), KeyA(sEnter, 0, 1), SleepA(500) >>,
      << TypeA(<< <<" ">>, <<"a">> >>, 0, 100), KeyA(sDown, 200, 2), CtrlA(<<"c">>) >>,
      << KeyA(sEnter, 0, 0), SleepA(0), CtrlA(<<"d">>) >>,
      << TypeA(<< <<"a">>, <<"0xC3", "0xA9">>, <<"b">> >>, 50, 0) >>,
      << CtrlA(<<"c">>), KeyA(<<"F", "1">>, 0, 1) >>,
      << KeyA(<<"a">>, 0, 1), SleepA(100), KeyA(sEnter, 0, 1) >>,
      << KeyA(sDown, 100, -1) >> }

\* legacy configurations: <<Keypresses, Delays>>
Legacies ==
    { << <<>>, <<>> >>,
      << << <<"a">>, <<"e","n","t","e","r">> >>, <<100>> >>,
      << << <<"c","t","r","l","+","c">>, <<"q">> >>, <<0>> >> }

Intervals == {0, 500}

Configs ==
    { [Actions |-> a, Keypresses |-> l[1], Delays |-> l[2], ScreenshotInterval |-> i] :
        a \in Scripts, l \in Legacies, i \in Intervals }

Goroutines == {"run", "interval"}

(***************************************************************************)
(* internal/script: the lexer.  Offsets are zero-based byte offsets; the   *)
(* lexer's fields follow from its position (readPos = position + 1, ch is  *)
(* the byte at position, or 0 past the end of the input).                  *)
(***************************************************************************)
tokenEOF == 0
tokenIdent == 1
tokenString == 2
tokenNumber == 3
tokenDuration == 4
tokenAt == 5
tokenPlus == 6

token(kind, literal, position) == [kind |-> kind, literal |-> literal, position |-> position]

\* l.ch when l.position = p
ch(in, p) == IF p >= Len(in) THEN "0x00" ELSE in[p + 1]

\* l.peekChar() when l.position = p
peekChar(in, p) == ch(in, p + 1)

\* the bytes of the input at offsets from..(to - 1)
Bytes(in, from, to) == SubSeq(in, from + 1, to)

\* unicode.IsLetter(rune(ch)) || ch == '_': the byte is read as a Latin-1 rune
isLetter(b) ==
    \/ b = "_"
    \/ Ord(b) \in (65..90) \cup (97..122) \cup {170, 181, 186}
                    \cup (192..214) \cup (216..246) \cup (248..255)

isDigit(b) == Ord(b) \in 48..57

\* skipWhitespace: the position of the first byte that is not ' ', \t, \n, \r
RECURSIVE skipWhitespace(_, _)
skipWhitespace(in, p) ==
    IF ch(in, p) \in {" ", "0x09", "0x0A", "0x0D"} THEN skipWhitespace(in, p + 1) ELSE p

\* the loop of readString: the position of the closing quote or of the end
RECURSIVE stringEnd(_, _, _)
stringEnd(in, p, quote) ==
    IF ch(in, p) # quote /\ ch(in, p) # "0x00" THEN stringEnd(in, p + 1, quote) ELSE p

\* a readString that takes the token's position after the opening quote
readString_PosAfterQuote(in, p, quote) ==
    LET e == stringEnd(in, p + 1, quote) IN
    [tok |-> token(tokenString, Bytes(in, p + 1, e), p + 1), next |-> e + 1]

\* a readString that returns the end-of-input token when the closing quote
\* is missing
readString_RequiresClose(in, p, quote) ==
    LET e == stringEnd(in, p + 1, quote) IN
    IF ch(in, e) = quote
    THEN [tok |-> token(tokenString, Bytes(in, p + 1, e), p), next |-> e + 1]
    ELSE [tok |-> token(tokenEOF, <<>>, p), next |-> e]

\* readString: the token, and the lexer's position after it
readString(in, p, quote) ==
    LET e == stringEnd(in, p + 1, quote) IN
    [tok |-> token(tokenString, Bytes(in, p + 1, e), p), next |-> e + 1]

\* the loop of readNumberOrDuration: the position after the digits
RECURSIVE digitsEnd(_, _)
digitsEnd(in, p) == IF isDigit(ch(in, p)) THEN digitsEnd(in, p + 1) ELSE p

readNumberOrDuration(in, p) ==
    LET e == digitsEnd(in, p) IN
    IF ch(in, e) = "m" /\ peekChar(in, e) = "s"
    THEN [tok |-> token(tokenDuration, Bytes(in, p, e + 2), p), next |-> e + 2]
    ELSE IF ch(in, e) = "s"
         THEN [tok |-> token(tokenDuration, Bytes(in, p, e + 1), p), next |-> e + 1]
         ELSE [tok |-> token(tokenNumber, Bytes(in, p, e), p), next |-> e]

\* the loop of readIdent: the position after the letters, digits and '+'
RECURSIVE identEnd(_, _)
identEnd(in, p) ==
    IF isLetter(ch(in, p)) \/ isDigit(ch(in, p)) \/ ch(in, p) = "+"
    THEN identEnd(in, p + 1) ELSE p

readIdent(in, p) ==
    LET e == identEnd(in, p) IN
    [tok |-> token(tokenIdent, Bytes(in, p, e), p), next |-> e]

RECURSIVE nextToken(_, _)

\* a lexer that returns a token for a byte it does not know instead of
\* skipping it
scanToken_NoSkip(in, p) ==
    CASE ch(in, p) = "@" -> [tok |-> token(tokenAt, <<"@">>, p), next |-> p + 1]
      [] ch(in, p) = "+" -> [tok |-> token(tokenPlus, <<"+">>, p), next |-> p + 1]
      [] ch(in, p) = "'" -> readString(in, p, "'")
      [] ch(in, p) = "0x22" -> readString(in, p, "0x22")
      [] ch(in, p) = "0x00" -> [tok |-> token(tokenEOF, <<>>, p), next |-> p]
      [] OTHER ->
           IF isDigit(ch(in, p)) THEN readNumberOrDuration(in, p)
           ELSE IF isLetter(ch(in, p)) THEN readIdent(in, p)
           ELSE [tok |-> token(tokenPlus, <<ch(in, p)>>, p), next |-> p + 1]

\* nextToken after skipWhitespace: pos := l.position and the switch on l.ch
scanToken(in, p) ==
    CASE ch(in, p) = "@" -> [tok |-> token(tokenAt, <<"@">>, p), next |-> p + 1]
      [] ch(in, p) = "+" -> [tok |-> token(tokenPlus, <<"+">>, p), next |-> p + 1]
      [] ch(in, p) = "'" -> readString(in, p, "'")
      [] ch(in, p) = "0x22" -> readString(in, p, "0x22")
      [] ch(in, p) = "0x00" -> [tok |-> token(tokenEOF, <<>>, p), next |-> p]
      [] OTHER ->
           IF isDigit(ch(in, p)) THEN readNumberOrDuration(in, p)
           ELSE IF isLetter(ch(in, p)) THEN readIdent(in, p)
           ELSE nextToken(in, p + 1)

\* a lexer that takes the token's position before it skips the whitespace
nextToken_PosBeforeSkip(in, p) ==
    LET t == scanToken(in, skipWhitespace(in, p)) IN
    [tok |-> token(t.tok.kind, t.tok.literal, p), next |-> t.next]

\* l.nextToken() with the lexer at position p
nextToken(in, p) == scanToken(in, skipWhitespace(in, p))

(***************************************************************************)
(* internal/script: the parser.  Durations are in milliseconds; a Text is  *)
(* the byte string of the token.                                           *)
(***************************************************************************)
\* the parser p: its two tokens, the position l of its lexer, and the tokens
\* the lexer has returned to it so far
Parser(cur, peek, l, toks) == [curToken |-> cur, peekToken |-> peek, l |-> l, toks |-> toks]

\* &parser{l: l} over a new lexer
NoParser == Parser(token(tokenEOF, <<>>, 0), token(tokenEOF, <<>>, 0), 0, <<>>)

\* a nextToken that overwrites curToken with the new token and never shifts
\* peekToken into it
pNextToken_DropsPeek(in, P) ==
    LET t == nextToken(in, P.l) IN Parser(t.tok, P.peekToken, t.next, Append(P.toks, t.tok))

\* p.nextToken()
pNextToken(in, P) ==
    LET t == nextToken(in, P.l) IN Parser(P.peekToken, t.tok, t.next, Append(P.toks, t.tok))

\* newParser(newLexer(in)): two tokens are read
newParser(in) == pNextToken(in, pNextToken(in, NoParser))

\* &ParseError{Position, Message}; Arg is the text quoted in the message
ParseError(pos, msg, arg) == [Position |-> pos, Message |-> msg, Arg |-> arg]

\* a nil error
NoParseError == ParseError(0, "", <<>>)

ExpectedCommand == "expected command or key"
ExpectedDurationAt == "expected duration after @"
ExpectedDurationSleep == "expected duration after Sleep"
ExpectedString == "expected quoted string after Type"
InvalidDuration == "invalid duration"
UnknownKey == "unknown key"

\* what Parse has returned before it returns
NoResult == [actions |-> <<>>, err |-> NoParseError]

validKeys ==
    { <<"e", "n", "t", "e", "r">>,
      <<"t", "a", "b">>,
      <<"e", "s", "c", "a", "p", "e">>,
      <<"s", "p", "a", "c", "e">>,
      <<"b", "a", "c", "k", "s", "p", "a", "c", "e">>,
      <<"d", "e", "l", "e", "t", "e">>,
      <<"u", "p">>,
      <<"d", "o", "w", "n">>,
      <<"l", "e", "f", "t">>,
      <<"r", "i", "g", "h", "t">>,
      <<"h", "o", "m", "e">>,
      <<"e", "n", "d">>,
      <<"p", "a", "g", "e", "u", "p">>,
      <<"p", "a", "g", "e", "d", "o", "w", "n">> }

sType == <<"t", "y", "p", "e">>
sSleep == <<"s", "l", "e", "e", "p">>

\* a check of key names that lets every identifier through
isValidKey_AnyName(key) == TRUE

isValidKey(key) ==
    LET lowerKey == ToLower(key) IN
    \/ lowerKey \in validKeys
    \/ HasPrefix(lowerKey, sCtrlPlus) /\ Len(lowerKey) = 6

\* strconv.Atoi on a string of digits (no literal of the model leaves the
\* range of int)
RECURSIVE Atoi(_)
Atoi(s) == IF s = <<>> THEN 0 ELSE 10 * Atoi(SubSeq(s, 1, Len(s) - 1)) + (Ord(s[Len(s)]) - 48)

\* parseDuration is time.ParseDuration, here on the literals the lexer makes
\* (digits, digits+"ms", digits+"s"): "0" alone is the zero duration, any
\* other literal needs a unit
parseDuration(s) ==
    LET e == digitsEnd(s, 0)
    IN IF s = <<"0">> THEN [ok |-> TRUE, d |-> 0]
       ELSE IF Bytes(s, e, Len(s)) = <<"m", "s">>
       THEN [ok |-> TRUE, d |-> Atoi(Bytes(s, 0, e))]
       ELSE IF Bytes(s, e, Len(s)) = <<"s">>
       THEN [ok |-> TRUE, d |-> 1000 * Atoi(Bytes(s, 0, e))]
       ELSE [ok |-> FALSE, d |-> 0]

\* the speed of a Type action without a modifier: 50 * time.Millisecond
DefaultSpeed == 50

\* what a parse function returns, and the parser after it
Parsed(action, err, P) == [action |-> action, err |-> err, p |-> P]

\* return Action{}, &ParseError{Position: p.curToken.position, ...}
Fail(P, msg, arg) ==
    Parsed(Action(ActionType, <<>>, <<>>, 0, 0, 0, 0), ParseError(P.curToken.position, msg, arg), P)

\* parseTypeAction at the quoted string: action.Text and the end of the action
typeText(in, P3, speed) ==
    IF P3.curToken.kind # tokenString
    THEN Fail(P3, ExpectedString, <<>>)
    ELSE Parsed(Action(ActionType, P3.curToken.literal, <<>>, 0, speed, 0, 0),
                NoParseError, pNextToken(in, P3))

\* parseTypeAction with the duration d parsed from the token after '@'
typeSpeed(in, P2, d) ==
    IF ~d.ok
    THEN Fail(P2, InvalidDuration, P2.curToken.literal)
    ELSE typeText(in, pNextToken(in, P2), d.d)

\* parseTypeAction after '@' was consumed
typeDuration(in, P2) ==
    IF P2.curToken.kind \notin {tokenDuration, tokenNumber}
    THEN Fail(P2, ExpectedDurationAt, <<>>)
    ELSE typeSpeed(in, P2, parseDuration(P2.curToken.literal))

\* parseTypeAction after 'Type' was consumed: the @speed modifier
typeModifier(in, P1) ==
    IF P1.curToken.kind = tokenAt
    THEN typeDuration(in, pNextToken(in, P1))
    ELSE typeText(in, P1, DefaultSpeed)

parseTypeAction(in, P) == typeModifier(in, pNextToken(in, P))

\* parseSleepAction with the duration d parsed from the current token
sleepParsed(in, P1, d) ==
    IF ~d.ok
    THEN Fail(P1, InvalidDuration, P1.curToken.literal)
    ELSE Parsed(Action(ActionSleep, <<>>, <<>>, d.d, 0, 0, 0), NoParseError,
                pNextToken(in, P1))

\* parseSleepAction after 'Sleep' was consumed
sleepDuration(in, P1) ==
    IF P1.curToken.kind \notin {tokenDuration, tokenNumber}
    THEN Fail(P1, ExpectedDurationSleep, <<>>)
    ELSE sleepParsed(in, P1, parseDuration(P1.curToken.literal))

parseSleepAction(in, P) == sleepDuration(in, pNextToken(in, P))

\* parseKeyAction at the repeat count: the action with or without it
keyParsed(keyName, delay, repeat, P) ==
    Parsed(Action(ActionKey, <<>>, keyName, 0, 0, delay, repeat), NoParseError, P)

keyRepeat(in, keyName, delay, P3) ==
    IF P3.curToken.kind = tokenNumber
    THEN keyParsed(keyName, delay, Atoi(P3.curToken.literal), pNextToken(in, P3))
    ELSE keyParsed(keyName, delay, 1, P3)

\* parseKeyAction with the duration d parsed from the token after '@'
keyDelay(in, keyName, P2, d) ==
    IF ~d.ok
    THEN Fail(P2, InvalidDuration, P2.curToken.literal)
    ELSE keyRepeat(in, keyName, d.d, pNextToken(in, P2))

\* parseKeyAction after '@' was consumed
keyDuration(in, keyName, P2) ==
    IF P2.curToken.kind \notin {tokenDuration, tokenNumber}
    THEN Fail(P2, ExpectedDurationAt, <<>>)
    ELSE keyDelay(in, keyName, P2, parseDuration(P2.curToken.literal))

\* parseKeyAction after the key name was consumed: the @delay modifier
keyModifier(in, keyName, P1) ==
    IF P1.curToken.kind = tokenAt
    THEN keyDuration(in, keyName, pNextToken(in, P1))
    ELSE keyRepeat(in, keyName, 0, P1)

parseKeyAction(in, P) ==
    IF ~isValidKey(P.curToken.literal)
    THEN Fail(P, UnknownKey, P.curToken.literal)
    ELSE keyModifier(in, P.curToken.literal, pNextToken(in, P))

\* a Ctrl action that takes a repeat count the way a Key action does
parseCtrlAction_WithRepeat(in, P) ==
    LET r == keyRepeat(in, ToLower(Bytes(P.curToken.literal, 5, Len(P.curToken.literal))),
                       0, pNextToken(in, P))
    IN Parsed([r.action EXCEPT !.Kind = ActionCtrl], r.err, r.p)

\* Key: strings.ToLower(keyName[5:])
parseCtrlAction(in, P) ==
    LET keyName == P.curToken.literal IN
    Parsed(Action(ActionCtrl, <<>>, ToLower(Bytes(keyName, 5, Len(keyName))), 0, 0, 0, 0),
           NoParseError, pNextToken(in, P))

\* a parseAction that compares the identifier as it is written
parseAction_CaseSensitive(in, P) ==
    LET ident == P.curToken.literal IN
    IF P.curToken.kind # tokenIdent THEN Fail(P, ExpectedCommand, P.curToken.literal)
    ELSE IF HasPrefix(ident, sCtrlPlus) THEN parseCtrlAction(in, P)
    ELSE IF ident = sType THEN parseTypeAction(in, P)
    ELSE IF ident = sSleep THEN parseSleepAction(in, P)
    ELSE parseKeyAction(in, P)

\* parseAction: the dispatch on strings.ToLower(p.curToken.literal)
parseAction(in, P) ==
    LET ident == ToLower(P.curToken.literal) IN
    IF P.curToken.kind # tokenIdent THEN Fail(P, ExpectedCommand, P.curToken.literal)
    ELSE IF HasPrefix(ident, sCtrlPlus) THEN parseCtrlAction(in, P)
    ELSE IF ident = sType THEN parseTypeAction(in, P)
    ELSE IF ident = sSleep THEN parseSleepAction(in, P)
    ELSE parseKeyAction(in, P)

\* the script texts explored
ScriptTexts ==
    {
      \* (empty)
      <<>>,
      \*    \t\n  
      <<" ", " ", " ", "0x09", "0x0A", " ", " ">>,
      \* Foo
      <<"F", "o", "o">>,
      \* Type 'test' Foo
      <<"T", "y", "p", "e", " ", "'", "t", "e", "s", "t", "'", " ", "F", "o", "o">>,
      \* Type hello
      <<"T", "y", "p", "e", " ", "h", "e", "l", "l", "o">>,
      \* Sleep 500
      <<"S", "l", "e", "e", "p", " ", "5", "0", "0">>,
      \* Sleep 0
      <<"S", "l", "e", "e", "p", " ", "0">>,
      \* Sleep 500ms
      <<"S", "l", "e", "e", "p", " ", "5", "0", "0", "m", "s">>,
      \* Sleep 2s
      <<"S", "l", "e", "e", "p", " ", "2", "s">>,
      \* Sleep 500x
      <<"S", "l", "e", "e", "p", " ", "5", "0", "0", "x">>,
      \* Sleep
      <<"S", "l", "e", "e", "p">>,
      \* Type@30ms 'fast'
      <<"T", "y", "p", "e", "@", "3", "0", "m", "s", " ", "'", "f", "a", "s", "t", "'">>,
      \* Type@30 'x'
      <<"T", "y", "p", "e", "@", "3", "0", " ", "'", "x", "'">>,
      \* Type@0 'x'
      <<"T", "y", "p", "e", "@", "0", " ", "'", "x", "'">>,
      \* Type@ 'hello'
      <<"T", "y", "p", "e", "@", " ", "'", "h", "e", "l", "l", "o", "'">>,
      \* Type 'ls -la' Enter
      <<"T", "y", "p", "e", " ", "'", "l", "s", " ", "-", "l", "a", "'", " ", "E", "n", "t", "e", "r">>,
      \* Enter@200ms
      <<"E", "n", "t", "e", "r", "@", "2", "0", "0", "m", "s">>,
      \* Enter@200
      <<"E", "n", "t", "e", "r", "@", "2", "0", "0">>,
      \* Enter@0 2
      <<"E", "n", "t", "e", "r", "@", "0", " ", "2">>,
      \* Down 3
      <<"D", "o", "w", "n", " ", "3">>,
      \* Down 0
      <<"D", "o", "w", "n", " ", "0">>,
      \* Down@200ms 2
      <<"D", "o", "w", "n", "@", "2", "0", "0", "m", "s", " ", "2">>,
      \* Ctrl+C
      <<"C", "t", "r", "l", "+", "C">>,
      \* ctrl+d
      <<"c", "t", "r", "l", "+", "d">>,
      \* Ctrl+
      <<"C", "t", "r", "l", "+">>,
      \* Ctrl+CC
      <<"C", "t", "r", "l", "+", "C", "C">>,
      \* Ctrl+1
      <<"C", "t", "r", "l", "+", "1">>,
      \* Enter Foo
      <<"E", "n", "t", "e", "r", " ", "F", "o", "o">>,
      \* Sleep 1s Type 'ls' Enter Sleep 500ms
      <<"S", "l", "e", "e", "p", " ", "1", "s", " ", "T", "y", "p", "e", " ", "'", "l", "s", "'", " ", "E", "n", "t", "e", "r", " ", "S", "l", "e", "e", "p", " ", "5", "0", "0", "m", "s">>,
      \* Type 'abc
      <<"T", "y", "p", "e", " ", "'", "a", "b", "c">>,
      \* TAB
      <<"T", "A", "B">>,
      \* 5 Enter
      <<"5", " ", "E", "n", "t", "e", "r">>,
      \* Type "it's"
      <<"T", "y", "p", "e", " ", "0x22", "i", "t", "'", "s", "0x22">>,
      \* Ctrl+C 2
      <<"C", "t", "r", "l", "+", "C", " ", "2">>,
      \* Ctrl+C@1s
      <<"C", "t", "r", "l", "+", "C", "@", "1", "s">>,
      \* Down 2 Sleep 5
      <<"D", "o", "w", "n", " ", "2", " ", "S", "l", "e", "e", "p", " ", "5">>,
      \* # !
      <<"#", " ", "!">>,
      \* -\r\n~ and the byte 0xA9
      <<"-", "0x0D", "0x0A", "~", "0xA9">>,
      \* #Enter;
      <<"#", "E", "n", "t", "e", "r", ";">>,
      \* the bytes 0xC3 0xA9
      <<"0xC3", "0xA9">>,
      \* PageUp space
      <<"P", "a", "g", "e", "U", "p", " ", "s", "p", "a", "c", "e">>,
      \* Type 'a"b c
      <<"T", "y", "p", "e", " ", "'", "a", "0x22", "b", " ", "c">> }

(***************************************************************************)
(* Groups of variables.                                                    *)
(***************************************************************************)
eloc == <<pc, ai, ci, wk, wstate, timerFired, perr>>
eret == <<returned, result, endedBy, ttyd>>
sync == <<stopChan, wg>>
pvars == <<ptask, tickPending, ticks, diag>>
fvars == <<mu, screenshotCount, fpc, fname>>
logs == <<issued, sent, shots, files, ops>>
outs == <<issued, sent, shots, files>>
pstate == <<input, parser, pactions, ppc, ret, report>>

\* Parse is not running
ParseIdle ==
    /\ input = <<>>
    /\ parser = NoParser
    /\ pactions = <<>>
    /\ ppc = "idle"
    /\ ret = NoResult
    /\ report = <<>>

\* NewCapturer followed by the start of Run
Init ==
    /\ cfg \in Configs
    /\ ctxErr = <<>>
    /\ pc = "mkdir"
    /\ ai = 0
    /\ ci = 0
    /\ wk = ""
    /\ wstate = ""
    /\ timerFired = FALSE
    /\ perr = <<>>
    /\ returned = FALSE
    /\ result = <<>>
    /\ endedBy = ""
    /\ ttyd = "new"
    /\ stopChan = "nil"
    /\ wg = 0
    /\ ptask = "none"
    /\ tickPending = FALSE
    /\ ticks = 0
    /\ diag = 0
    /\ mu = ""
    /\ screenshotCount = 0
    /\ fpc = [g \in Goroutines |-> "idle"]
    /\ fname = [g \in Goroutines |-> <<>>]
    /\ issued = <<>>
    /\ sent = <<>>
    /\ shots = <<>>
    /\ files = {}
    /\ ops = <<>>
    /\ ParseIdle

(***************************************************************************)
(* The execution context and the Renderer.                                 *)
(***************************************************************************)
\* browserCtx.Err(): browserCtx is derived from ctx, and the deferred cancel
\* functions of Run cancel it when Run returns
browserCtxErr == IF ctxErr # <<>> THEN ctxErr ELSE IF returned THEN <<Canceled>> ELSE <<>>

\* the errors a chromedp.Run(browserCtx, ...) call that ends now can return
CallErrors ==
    IF browserCtxErr # <<>> THEN {browserCtxErr, <<RendererBroke>>} ELSE {<<RendererBroke>>}

\* a call on a context that is already done does not succeed
CallCanSucceed == browserCtxErr = <<>>

\* the reason a run ends with this root error
CauseOf(err) == IF err = ctxErr /\ ctxErr # <<>> THEN "ctx" ELSE "renderer"

\* a return from Run without the deferred c.ttyd.Stop()
Return_NoStop(err, why) ==
    /\ returned' = TRUE
    /\ result' = err
    /\ endedBy' = why
    /\ UNCHANGED ttyd

\* return err from Run: the deferred cancel functions and c.ttyd.Stop() run
Return(err, why) ==
    /\ returned' = TRUE
    /\ result' = err
    /\ endedBy' = why
    /\ ttyd' = IF ttyd = "started" THEN "stopped" ELSE ttyd

\* cancel() in main, or the deadline of context.WithTimeout elapsing; a
\* goroutine parked in a select on ctx.Done() is woken with that case
Cancel ==
    /\ ctxErr = <<>>
    /\ ~returned
    /\ ctxErr' \in {<<Canceled>>, <<DeadlineExceeded>>}
    /\ wstate' = IF wstate = "blocked" THEN "wokeDone" ELSE wstate
    /\ UNCHANGED <<cfg, pstate, pc, ai, ci, wk, timerFired, perr, eret, sync, pvars, fvars, logs>>

(***************************************************************************)
(* getScreenshotFilename, run by goroutine g.                              *)
(***************************************************************************)
RECURSIVE Digits(_)
Digits(n) == IF n < 10 THEN <<n>> ELSE Digits(n \div 10) \o <<n % 10>>

\* fmt.Sprintf("%03d", n)
Sprintf03d(n) ==
    LET d == Digits(n) IN
    IF Len(d) >= 3 THEN d ELSE [i \in 1..(3 - Len(d)) |-> 0] \o d

\* a Lock that does not exclude the other goroutine
Lock_NoExclusion(g) ==
    /\ fpc[g] = "lock"
    /\ mu' = g
    /\ fpc' = [fpc EXCEPT ![g] = "incr"]
    /\ UNCHANGED <<cfg, pstate, ctxErr, eloc, eret, sync, pvars, screenshotCount, fname, logs>>

\* c.mu.Lock()
Lock(g) ==
    /\ fpc[g] = "lock"
    /\ mu = ""
    /\ mu' = g
    /\ fpc' = [fpc EXCEPT ![g] = "incr"]
    /\ UNCHANGED <<cfg, pstate, ctxErr, eloc, eret, sync, pvars, screenshotCount, fname, logs>>

\* c.screenshotCount++
Incr(g) ==
    /\ fpc[g] = "incr"
    /\ screenshotCount' = screenshotCount + 1
    /\ fpc' = [fpc EXCEPT ![g] = "format"]
    /\ UNCHANGED <<cfg, pstate, ctxErr, eloc, eret, sync, pvars, mu, fname, logs>>

\* the filename formatted from the counter before its increment
FormatUnlock_ZeroBased(g) ==
    /\ fpc[g] = "format"
    /\ fname' = [fname EXCEPT ![g] = Sprintf03d(screenshotCount - 1)]
    /\ mu' = IF mu = g THEN "" ELSE mu
    /\ fpc' = [fpc EXCEPT ![g] = "ret"]
    /\ issued' = Append(issued, fname'[g])
    /\ UNCHANGED <<cfg, pstate, ctxErr, eloc, eret, sync, pvars, screenshotCount, sent, shots, files, ops>>

\* return filepath.Join(..., Sprintf(..., c.screenshotCount)), then the deferred Unlock
FormatUnlock(g) ==
    /\ fpc[g] = "format"
    /\ fname' = [fname EXCEPT ![g] = Sprintf03d(screenshotCount)]
    /\ mu' = IF mu = g THEN "" ELSE mu
    /\ fpc' = [fpc EXCEPT ![g] = "ret"]
    /\ issued' = Append(issued, fname'[g])
    /\ UNCHANGED <<cfg, pstate, ctxErr, eloc, eret, sync, pvars, screenshotCount, sent, shots, files, ops>>

getScreenshotFilename == \E g \in Goroutines : Lock(g) \/ Incr(g) \/ FormatUnlock(g)

(***************************************************************************)
(* captureScreenshot, as called by Run (initial and final capture).        *)
(***************************************************************************)
\* the shot a goroutine starts: who, which filename, and in which phase
Shot(g, phase) == [by |-> g, name |-> fname[g], phase |-> phase]

\* the errors captureScreenshot can return when it ends now, each with the
\* reason it arose: chromedp.Run failed, or os.WriteFile failed
CaptureErrors ==
    {<<Wrap("capture screenshot", e), CauseOf(e)>> : e \in CallErrors}
        \cup {<<Wrap("write screenshot", <<OsError>>), "other">>}

(***************************************************************************)
(* Run, up to the start of the periodic task.                              *)
(***************************************************************************)
\* os.MkdirAll(c.config.OutputDir, 0o755)
RunMkdir ==
    /\ pc = "mkdir" /\ ~returned
    /\ \/ /\ pc' = "ttydStart"
          /\ UNCHANGED eret
       \/ /\ Return(Wrap("output directory", <<OsError>>), "other")
          /\ UNCHANGED pc
    /\ UNCHANGED <<cfg, pstate, ctxErr, ai, ci, wk, wstate, timerFired, perr, sync, pvars, fvars, logs>>

\* c.ttyd.Start(ctx); defer c.ttyd.Stop()
RunTtydStart ==
    /\ pc = "ttydStart" /\ ~returned
    /\ \/ /\ ctxErr = <<>>
          /\ ttyd' = "started"
          /\ pc' = "navigate"
          /\ UNCHANGED <<returned, result, endedBy>>
       \/ /\ ctxErr = <<>>
          /\ Return(Wrap("start ttyd", <<OsError>>), "other")
          /\ UNCHANGED pc
       \/ /\ ctxErr # <<>>
          /\ Return(Wrap("start ttyd", Wrap("context cancelled while waiting for ttyd", ctxErr)), "ctx")
          /\ UNCHANGED pc
    /\ UNCHANGED <<cfg, pstate, ctxErr, ai, ci, wk, wstate, timerFired, perr, sync, pvars, fvars, logs>>

\* chromedp.NewContext and the three chromedp.Run calls that load the page:
\* Navigate, EmulateViewport, WaitVisible
RunNavigate ==
    /\ pc \in {"navigate", "viewport", "waitTerm"} /\ ~returned
    /\ \/ /\ CallCanSucceed
          /\ pc' = CASE pc = "navigate" -> "viewport"
                     [] pc = "viewport" -> "waitTerm"
                     [] pc = "waitTerm" -> "initName"
          /\ UNCHANGED eret
       \/ /\ \E e \in CallErrors :
                Return(Wrap(CASE pc = "navigate" -> "navigate to ttyd"
                              [] pc = "viewport" -> "set viewport"
                              [] pc = "waitTerm" -> "wait for terminal", e), CauseOf(e))
          /\ UNCHANGED pc
    /\ UNCHANGED <<cfg, pstate, ctxErr, ai, ci, wk, wstate, timerFired, perr, sync, pvars, fvars, logs>>

\* Run calls c.getScreenshotFilename() for the initial or the final capture
RunFilename ==
    /\ pc \in {"initName", "finalName"} /\ ~returned
    /\ fpc["run"] = "idle"
    /\ fpc' = [fpc EXCEPT !["run"] = "lock"]
    /\ pc' = IF pc = "initName" THEN "initShot" ELSE "finalShot"
    /\ UNCHANGED <<cfg, pstate, ctxErr, ai, ci, wk, wstate, timerFired, perr, eret, sync, pvars,
                   mu, screenshotCount, fname, logs>>

\* Run starts c.captureScreenshot(browserCtx, filename)
RunCaptureStart ==
    /\ pc \in {"initShot", "finalShot"} /\ ~returned
    /\ fpc["run"] = "ret"
    /\ fpc' = [fpc EXCEPT !["run"] = "idle"]
    /\ shots' = Append(shots, Shot("run", IF pc = "initShot" THEN "initial" ELSE "final"))
    /\ pc' = IF pc = "initShot" THEN "initCapturing" ELSE "finalCapturing"
    /\ UNCHANGED <<cfg, pstate, ctxErr, ai, ci, wk, wstate, timerFired, perr, eret, sync, pvars,
                   mu, screenshotCount, fname, issued, sent, files, ops>>

\* c.captureScreenshot returns to Run; after the final capture Run returns nil
RunCaptureEnd ==
    /\ pc \in {"initCapturing", "finalCapturing"} /\ ~returned
    /\ \/ /\ CallCanSucceed
          /\ files' = files \cup {fname["run"]}
          /\ IF pc = "initCapturing"
             THEN pc' = "spawn" /\ UNCHANGED eret
             ELSE Return(<<>>, "ok") /\ UNCHANGED pc
       \/ /\ \E e \in CaptureErrors :
                Return(Wrap(IF pc = "initCapturing" THEN "initial screenshot"
                            ELSE "final screenshot", e[1]), e[2])
          /\ UNCHANGED <<pc, files>>
    /\ UNCHANGED <<cfg, pstate, ctxErr, ai, ci, wk, wstate, timerFired, perr, sync, pvars, fvars,
                   issued, sent, shots, ops>>

\* if ScreenshotInterval > 0: make the stop channel, wg.Add(1), start the goroutine
RunSpawn ==
    /\ pc = "spawn" /\ ~returned
    /\ IF cfg.ScreenshotInterval > 0
       THEN stopChan' = "open" /\ wg' = 1 /\ ptask' = "start"
       ELSE UNCHANGED <<stopChan, wg, ptask>>
    /\ pc' = "exec"
    /\ UNCHANGED <<cfg, pstate, ctxErr, ai, ci, wk, wstate, timerFired, perr, eret, tickPending,
                   ticks, diag, fvars, logs>>

(***************************************************************************)
(* Cancellable waits: select { case <-ctx.Done(): return ctx.Err()         *)
(*                             case <-time.After(d): }                     *)
(***************************************************************************)
\* the duration handed to time.After by the wait `kind`, in milliseconds
WaitOf(kind) ==
    CASE kind = "speed" -> cfg.Actions[ai].Speed
      [] kind \in {"typeDelay", "keyDelay"} -> cfg.Actions[ai].Delay
      [] kind = "sleep" -> cfg.Actions[ai].Duration
      [] kind = "legacy" -> cfg.Delays[ai - 1]
      [] kind = "final" -> SettleDelay

\* the engine's step e is recorded
Log(e) == ops' = Append(ops, e)

\* the engine reaches the select of wait `kind`; time.After arms a new timer
EnterWait(kind) ==
    /\ pc' = "wait"
    /\ wk' = kind
    /\ wstate' = "select"
    /\ timerFired' = FALSE
    /\ Log(<<"wait", ai, WaitOf(kind)>>)

\* the timer of the current wait fires; a parked engine is woken by it
TimerFire ==
    /\ pc = "wait" /\ ~returned
    /\ ~timerFired
    /\ wstate \in {"select", "blocked"}
    /\ timerFired' = TRUE
    /\ wstate' = IF wstate = "blocked" THEN "wokeTimer" ELSE wstate
    /\ UNCHANGED <<cfg, pstate, ctxErr, pc, ai, ci, wk, perr, eret, sync, pvars, fvars, logs>>

\* no case is ready when the select is evaluated: the engine parks
WaitBlock ==
    /\ pc = "wait" /\ ~returned
    /\ wstate = "select"
    /\ ctxErr = <<>>
    /\ ~timerFired
    /\ wstate' = "blocked"
    /\ UNCHANGED <<cfg, pstate, ctxErr, pc, ai, ci, wk, timerFired, perr, eret, sync, pvars, fvars, logs>>

\* the code that follows the select of the current wait
AfterWait ==
    /\ wstate' = ""
    /\ timerFired' = FALSE
    /\ wk' = ""
    /\ CASE wk = "speed" -> pc' = "typeCheck" /\ ci' = ci + 1 /\ ai' = ai
         [] wk \in {"typeDelay", "keyDelay", "sleep"} -> pc' = "action" /\ ai' = ai + 1 /\ ci' = 0
         [] wk = "legacy" -> pc' = "legacySend" /\ UNCHANGED <<ai, ci>>
         [] wk = "final" -> pc' = "finalName" /\ UNCHANGED <<ai, ci>>

\* a wait that does not race against ctx.Done(): it runs to its end
WaitCancelled_SleepsOn ==
    /\ pc = "wait" /\ ~returned
    /\ \/ wstate = "wokeDone"
       \/ wstate = "select" /\ ctxErr # <<>>
    /\ AfterWait
    /\ Log(<<"elapsed", ai>>)
    /\ UNCHANGED <<cfg, pstate, ctxErr, perr, eret, sync, pvars, fvars, outs>>

\* case <-ctx.Done(): return ctx.Err()
WaitCancelled ==
    /\ pc = "wait" /\ ~returned
    /\ \/ wstate = "wokeDone" /\ wstate' = wstate
       \/ wstate = "select" /\ ctxErr # <<>> /\ wstate' = "sawDone"
    /\ Return(ctxErr, "ctx")
    /\ UNCHANGED <<cfg, pstate, ctxErr, pc, ai, ci, wk, timerFired, perr, sync, pvars, fvars, logs>>

\* case <-time.After(d): the wait is over and the engine continues after it
WaitElapsed ==
    /\ pc = "wait" /\ ~returned
    /\ \/ wstate = "wokeTimer"
       \/ wstate = "select" /\ timerFired
    /\ AfterWait
    /\ Log(<<"elapsed", ai>>)
    /\ UNCHANGED <<cfg, pstate, ctxErr, perr, eret, sync, pvars, fvars, outs>>

(***************************************************************************)
(* sendKeypress and sendCtrlKeypress.                                      *)
(***************************************************************************)
\* the input event a call hands to chromedp.KeyEvent
KeyEvent(key, code, ctrl) == [key |-> key, code |-> code, ctrl |-> ctrl]

\* sendCtrlKeypress up to chromedp.Run: the format check, then the dispatch
\* starts; prefix is the message the caller wraps a failure with
sendCtrlKeypressStart(key, prefix, sending) ==
    LET lowerKey == ToLower(key) IN
    IF ~HasPrefix(lowerKey, sCtrlPlus) \/ Len(lowerKey) # 6
    THEN /\ perr' = Wrap(prefix, <<InvalidCtrl>>)
         /\ endedBy' = "renderer"
         /\ pc' = "fail"
         /\ UNCHANGED <<sent, ops>>
    ELSE /\ sent' = Append(sent, KeyEvent(key, SubSeq(lowerKey, 6, Len(lowerKey)), TRUE))
         /\ Log(<<"send", ai, key>>)
         /\ pc' = sending
         /\ UNCHANGED <<perr, endedBy>>

\* sendKeypress up to chromedp.Run: Ctrl combinations go to sendCtrlKeypress,
\* other keys are looked up with KeyToKeyCode, then the dispatch starts
sendKeypressStart(key, prefix, sending) ==
    IF isCtrlKey(key)
    THEN sendCtrlKeypressStart(key, prefix, sending)
    ELSE IF ~KeyToKeyCode(key).ok
         THEN /\ perr' = Wrap(prefix, Wrap("lookup key code", <<NotRecognized>>))
              /\ endedBy' = "renderer"
              /\ pc' = "fail"
              /\ UNCHANGED <<sent, ops>>
         ELSE /\ sent' = Append(sent, KeyEvent(key, KeyToKeyCode(key).code, FALSE))
              /\ Log(<<"send", ai, key>>)
              /\ pc' = sending
              /\ UNCHANGED <<perr, endedBy>>

\* chromedp.Run of a dispatch returns an error: the caller wraps it and
\* enters its failure path
DispatchFailed(prefix) ==
    /\ \E e \in CallErrors :
          /\ perr' = Wrap(prefix, e)
          /\ endedBy' = CauseOf(e)
    /\ pc' = "fail"

\* close(intervalStopChan); a periodic task parked in its select is woken
\* by the stop case
CloseStop ==
    /\ stopChan' = "closed"
    /\ ptask' = IF ptask = "blocked" THEN "wokeStop" ELSE ptask

\* the failure path of a dispatch: if intervalStopChan != nil { close(...)
StopOnFailure ==
    /\ pc = "fail" /\ ~returned
    /\ IF stopChan # "nil"
       THEN /\ CloseStop
            /\ pc' = "failWait"
            /\ UNCHANGED eret
       ELSE /\ Return(perr, endedBy)
            /\ UNCHANGED <<pc, stopChan, ptask>>
    /\ UNCHANGED <<cfg, pstate, ctxErr, ai, ci, wk, wstate, timerFired, perr, wg, tickPending, ticks, diag,
                   fvars, logs>>

\* the failure path returning without wg.Wait()
WaitOnFailure_NoJoin ==
    /\ pc = "failWait" /\ ~returned
    /\ Return(perr, endedBy)
    /\ UNCHANGED <<cfg, pstate, ctxErr, eloc, sync, pvars, fvars, logs>>

\* a failure path that, after the join, goes on to the normal completion of
\* Run instead of returning the error
WaitOnFailure_FallsThrough ==
    /\ pc = "failWait" /\ ~returned
    /\ wg = 0
    /\ pc' = "stopInterval"
    /\ UNCHANGED <<cfg, pstate, ctxErr, ai, ci, wk, wstate, timerFired, perr, eret, sync, pvars,
                   fvars, logs>>

\* ... wg.Wait() }; return fmt.Errorf("...: %w", err)
WaitOnFailure ==
    /\ pc = "failWait" /\ ~returned
    /\ wg = 0
    /\ Return(perr, endedBy)
    /\ UNCHANGED <<cfg, pstate, ctxErr, eloc, sync, pvars, fvars, logs>>

(***************************************************************************)
(* executeActions and the four action kinds.                               *)
(***************************************************************************)
\* the action being executed
Cur == cfg.Actions[ai]

\* an executeActions that refuses to run when there is nothing to send
executeActions_RequiresInput ==
    /\ pc = "exec" /\ ~returned
    /\ Log(<<"exec", ctxErr # <<>> >>)
    /\ IF Len(cfg.Actions) = 0 /\ Len(cfg.Keypresses) = 0
       THEN Return(<<"no actions">>, "other") /\ UNCHANGED <<pc, ai>>
       ELSE /\ ai' = 1
            /\ pc' = IF Len(cfg.Actions) > 0 THEN "action" ELSE "legacy"
            /\ UNCHANGED eret
    /\ UNCHANGED <<cfg, pstate, ctxErr, ci, wk, wstate, timerFired, perr, sync, pvars, fvars, outs>>

\* useActions := len(actions) > 0; otherwise the legacy keypresses are run
executeActions ==
    /\ pc = "exec" /\ ~returned
    /\ ai' = 1
    /\ pc' = IF Len(cfg.Actions) > 0 THEN "action" ELSE "legacy"
    /\ Log(<<"exec", ctxErr # <<>> >>)
    /\ UNCHANGED <<cfg, pstate, ctxErr, ci, wk, wstate, timerFired, perr, eret, sync, pvars, fvars, outs>>

\* a switch that writes the defaulted repeat count back into the action
executeSingleAction_StoresRepeat ==
    /\ pc = "action" /\ ~returned
    /\ ai <= Len(cfg.Actions)
    /\ Cur.Kind = ActionKey
    /\ cfg' = [cfg EXCEPT !.Actions[ai].Repeat = IF Cur.Repeat <= 0 THEN 1 ELSE Cur.Repeat]
    /\ pc' = "keyCheck" /\ ci' = 1
    /\ UNCHANGED <<pstate, ctxErr, ai, wk, wstate, timerFired, perr, eret, sync, pvars, fvars, logs>>

\* the range loop of executeActions and the switch of executeSingleAction;
\* executeSleepAction is the select entered for ActionSleep
executeSingleAction ==
    /\ pc = "action" /\ ~returned
    /\ IF ai > Len(cfg.Actions)
       THEN /\ pc' = "stopInterval"
            /\ UNCHANGED <<ci, wk, wstate, timerFired, eret, ops>>
       ELSE CASE Cur.Kind = ActionType ->
                   /\ pc' = "typeCheck" /\ ci' = 1
                   /\ UNCHANGED <<wk, wstate, timerFired, eret, ops>>
              [] Cur.Kind = ActionSleep ->
                   /\ EnterWait("sleep")
                   /\ UNCHANGED <<ci, eret>>
              [] Cur.Kind = ActionKey ->
                   /\ pc' = "keyCheck" /\ ci' = 1
                   /\ UNCHANGED <<wk, wstate, timerFired, eret, ops>>
              [] Cur.Kind = ActionCtrl ->
                   /\ pc' = "ctrlSend"
                   /\ UNCHANGED <<ci, wk, wstate, timerFired, eret, ops>>
              [] OTHER ->
                   /\ Return(<<"unknown action kind">>, "other")
                   /\ UNCHANGED <<pc, ci, wk, wstate, timerFired, ops>>
    /\ UNCHANGED <<cfg, pstate, ctxErr, ai, perr, sync, pvars, fvars, outs>>

\* executeTypeAction, head of the character loop: the non-blocking check of
\* ctx.Done(); after the last character the post-action Delay
executeTypeActionCheck ==
    /\ pc = "typeCheck" /\ ~returned
    /\ IF ci > Len(Cur.Text)
       THEN /\ IF Cur.Delay > 0
               THEN EnterWait("typeDelay") /\ UNCHANGED <<ai, ci>>
               ELSE /\ pc' = "action" /\ ai' = ai + 1 /\ ci' = 0
                    /\ UNCHANGED <<wk, wstate, timerFired, ops>>
            /\ UNCHANGED eret
       ELSE /\ Log(<<"check", ai>>)
            /\ IF ctxErr # <<>>
               THEN /\ Return(ctxErr, "ctx")
                    /\ UNCHANGED <<pc, ai, ci, wk, wstate, timerFired>>
               ELSE /\ pc' = "typeSend"
                    /\ UNCHANGED <<ai, ci, wk, wstate, timerFired, eret>>
    /\ UNCHANGED <<cfg, pstate, ctxErr, perr, sync, pvars, fvars, outs>>

\* c.sendKeypress(browserCtx, string(char)) is called
executeTypeActionSend ==
    /\ pc = "typeSend" /\ ~returned
    /\ sendKeypressStart(Cur.Text[ci], "send character", "typeSending")
    /\ UNCHANGED <<cfg, pstate, ctxErr, ai, ci, wk, wstate, timerFired, returned, result, ttyd,
                   sync, pvars, fvars, issued, shots, files>>

\* a character loop that never paces: the Speed wait is left out
executeTypeActionSent_NoPacing ==
    /\ pc = "typeSending" /\ ~returned
    /\ \/ /\ CallCanSucceed
          /\ pc' = "typeCheck" /\ ci' = ci + 1
          /\ UNCHANGED <<perr, endedBy>>
       \/ /\ DispatchFailed("send character")
          /\ UNCHANGED ci
    /\ UNCHANGED <<cfg, pstate, ctxErr, ai, wk, wstate, timerFired, returned, result, ttyd, sync,
                   pvars, fvars, logs>>

\* a character loop that paces between characters only: no Speed wait after
\* the last character
executeTypeActionSent_NoWaitAfterLast ==
    /\ pc = "typeSending" /\ ~returned
    /\ \/ /\ CallCanSucceed
          /\ IF Cur.Speed > 0 /\ ci < Len(Cur.Text)
             THEN EnterWait("speed") /\ UNCHANGED ci
             ELSE /\ pc' = "typeCheck" /\ ci' = ci + 1
                  /\ UNCHANGED <<wk, wstate, timerFired, ops>>
          /\ UNCHANGED <<perr, endedBy>>
       \/ /\ DispatchFailed("send character")
          /\ UNCHANGED <<ci, wk, wstate, timerFired, ops>>
    /\ UNCHANGED <<cfg, pstate, ctxErr, ai, returned, result, ttyd, sync, pvars, fvars, outs>>

\* sendKeypress returns: on error the failure path, otherwise the Speed wait
executeTypeActionSent ==
    /\ pc = "typeSending" /\ ~returned
    /\ \/ /\ CallCanSucceed
          /\ IF Cur.Speed > 0
             THEN EnterWait("speed") /\ UNCHANGED ci
             ELSE /\ pc' = "typeCheck" /\ ci' = ci + 1
                  /\ UNCHANGED <<wk, wstate, timerFired, ops>>
          /\ UNCHANGED <<perr, endedBy>>
       \/ /\ DispatchFailed("send character")
          /\ UNCHANGED <<ci, wk, wstate, timerFired, ops>>
    /\ UNCHANGED <<cfg, pstate, ctxErr, ai, returned, result, ttyd, sync, pvars, fvars, outs>>

\* a repeat count that ignores action.Repeat
RepeatOf_One(action) == 1

\* a repeat count that defaults only a negative Repeat
RepeatOf_KeepsZero(action) == IF action.Repeat < 0 THEN 1 ELSE action.Repeat

\* repeat := action.Repeat; if repeat <= 0 { repeat = 1 }
RepeatOf(action) == IF action.Repeat <= 0 THEN 1 ELSE action.Repeat

\* executeKeyAction, head of the repeat loop: the non-blocking check of
\* ctx.Done(); after the last repeat the post-action Delay
executeKeyActionCheck ==
    /\ pc = "keyCheck" /\ ~returned
    /\ IF ci > RepeatOf(Cur)
       THEN /\ IF Cur.Delay > 0
               THEN EnterWait("keyDelay") /\ UNCHANGED <<ai, ci>>
               ELSE /\ pc' = "action" /\ ai' = ai + 1 /\ ci' = 0
                    /\ UNCHANGED <<wk, wstate, timerFired, ops>>
            /\ UNCHANGED eret
       ELSE /\ Log(<<"check", ai>>)
            /\ IF ctxErr # <<>>
               THEN /\ Return(ctxErr, "ctx")
                    /\ UNCHANGED <<pc, ai, ci, wk, wstate, timerFired>>
               ELSE /\ pc' = "keySend"
                    /\ UNCHANGED <<ai, ci, wk, wstate, timerFired, eret>>
    /\ UNCHANGED <<cfg, pstate, ctxErr, perr, sync, pvars, fvars, outs>>

\* c.sendKeypress(browserCtx, action.Key) is called
executeKeyActionSend ==
    /\ pc = "keySend" /\ ~returned
    /\ sendKeypressStart(Cur.Key, "send key", "keySending")
    /\ UNCHANGED <<cfg, pstate, ctxErr, ai, ci, wk, wstate, timerFired, returned, result, ttyd,
                   sync, pvars, fvars, issued, shots, files>>

\* a repeat loop that applies the Delay after every dispatch
executeKeyActionSent_DelayPerRepeat ==
    /\ pc = "keySending" /\ ~returned
    /\ \/ /\ CallCanSucceed
          /\ IF Cur.Delay > 0
             THEN EnterWait("keyDelay") /\ UNCHANGED ci
             ELSE /\ pc' = "keyCheck" /\ ci' = ci + 1
                  /\ UNCHANGED <<wk, wstate, timerFired, ops>>
          /\ UNCHANGED <<perr, endedBy>>
       \/ /\ DispatchFailed("send key")
          /\ UNCHANGED <<ci, wk, wstate, timerFired, ops>>
    /\ UNCHANGED <<cfg, pstate, ctxErr, ai, returned, result, ttyd, sync, pvars, fvars, outs>>

\* sendKeypress returns: on error the failure path, otherwise the next repeat
executeKeyActionSent ==
    /\ pc = "keySending" /\ ~returned
    /\ \/ /\ CallCanSucceed
          /\ pc' = "keyCheck" /\ ci' = ci + 1
          /\ UNCHANGED <<perr, endedBy>>
       \/ /\ DispatchFailed("send key")
          /\ UNCHANGED ci
    /\ UNCHANGED <<cfg, pstate, ctxErr, ai, wk, wstate, timerFired, returned, result, ttyd, sync,
                   pvars, fvars, logs>>

\* executeCtrlAction: c.sendCtrlKeypress(browserCtx, "ctrl+"+action.Key) is called
executeCtrlActionSend ==
    /\ pc = "ctrlSend" /\ ~returned
    /\ sendCtrlKeypressStart(sCtrlPlus \o Cur.Key, "send Ctrl+", "ctrlSending")
    /\ UNCHANGED <<cfg, pstate, ctxErr, ai, ci, wk, wstate, timerFired, returned, result, ttyd,
                   sync, pvars, fvars, issued, shots, files>>

\* sendCtrlKeypress returns: on error the failure path, otherwise the next action
executeCtrlActionSent ==
    /\ pc = "ctrlSending" /\ ~returned
    /\ \/ /\ CallCanSucceed
          /\ pc' = "action" /\ ai' = ai + 1
          /\ UNCHANGED <<perr, endedBy>>
       \/ /\ DispatchFailed("send Ctrl+")
          /\ UNCHANGED ai
    /\ UNCHANGED <<cfg, pstate, ctxErr, ci, wk, wstate, timerFired, returned, result, ttyd, sync,
                   pvars, fvars, logs>>

(***************************************************************************)
(* executeKeypresses: the legacy keypress/delay lists.                     *)
(***************************************************************************)
\* a loop that sends every key at once, without the wait before it
executeKeypressesLoop_NoWait ==
    /\ pc = "legacy" /\ ~returned
    /\ pc' = IF ai > Len(cfg.Keypresses) THEN "stopInterval" ELSE "legacySend"
    /\ UNCHANGED <<cfg, pstate, ctxErr, ai, ci, wk, wstate, timerFired, perr, eret, sync, pvars, fvars,
                   logs>>

\* head of the loop over c.config.Keypresses: the wait of Delays[i-1]
\* before every key but the first (i is ai - 1)
executeKeypressesLoop ==
    /\ pc = "legacy" /\ ~returned
    /\ IF ai > Len(cfg.Keypresses)
       THEN pc' = "stopInterval" /\ UNCHANGED <<wk, wstate, timerFired, ops>>
       ELSE IF ai - 1 > 0 /\ ai - 2 < Len(cfg.Delays)
            THEN EnterWait("legacy")
            ELSE pc' = "legacySend" /\ UNCHANGED <<wk, wstate, timerFired, ops>>
    /\ UNCHANGED <<cfg, pstate, ctxErr, ai, ci, perr, eret, sync, pvars, fvars, outs>>

\* c.sendKeypress(browserCtx, key) is called
executeKeypressesSend ==
    /\ pc = "legacySend" /\ ~returned
    /\ sendKeypressStart(cfg.Keypresses[ai], "send keypress", "legacySending")
    /\ UNCHANGED <<cfg, pstate, ctxErr, ai, ci, wk, wstate, timerFired, returned, result, ttyd,
                   sync, pvars, fvars, issued, shots, files>>

\* sendKeypress returns: on error the failure path, otherwise the next key
executeKeypressesSent ==
    /\ pc = "legacySending" /\ ~returned
    /\ \/ /\ CallCanSucceed
          /\ pc' = "legacy" /\ ai' = ai + 1
          /\ UNCHANGED <<perr, endedBy>>
       \/ /\ DispatchFailed("send keypress")
          /\ UNCHANGED ai
    /\ UNCHANGED <<cfg, pstate, ctxErr, ci, wk, wstate, timerFired, returned, result, ttyd, sync,
                   pvars, fvars, logs>>

(***************************************************************************)
(* Run, after executeActions returned nil.                                 *)
(***************************************************************************)
\* if intervalStopChan != nil { close(intervalStopChan) ...
RunStopInterval ==
    /\ pc = "stopInterval" /\ ~returned
    /\ IF stopChan # "nil"
       THEN /\ CloseStop
            /\ pc' = "join"
            /\ UNCHANGED <<wk, wstate, timerFired, ops>>
       ELSE /\ EnterWait("final")
            /\ UNCHANGED <<stopChan, ptask>>
    /\ UNCHANGED <<cfg, pstate, ctxErr, ai, ci, perr, eret, wg, tickPending, ticks, diag, fvars, outs>>

\* Run going on to the settle delay without wg.Wait()
RunJoin_NoWait ==
    /\ pc = "join" /\ ~returned
    /\ EnterWait("final")
    /\ UNCHANGED <<cfg, pstate, ctxErr, ai, ci, perr, eret, sync, pvars, fvars, outs>>

\* ... wg.Wait() }, then the select of the 100ms settle delay
RunJoin ==
    /\ pc = "join" /\ ~returned
    /\ wg = 0
    /\ EnterWait("final")
    /\ UNCHANGED <<cfg, pstate, ctxErr, ai, ci, perr, eret, sync, pvars, fvars, outs>>

(***************************************************************************)
(* captureIntervalScreenshots: the periodic-capture goroutine.             *)
(***************************************************************************)
\* the goroutine starts; time.NewTicker(c.config.ScreenshotInterval)
IntervalStart ==
    /\ ptask = "start"
    /\ IF cfg.ScreenshotInterval <= 0
       THEN ptask' = "done" /\ wg' = wg - 1
       ELSE ptask' = "select" /\ UNCHANGED wg
    /\ UNCHANGED <<cfg, pstate, ctxErr, eloc, eret, stopChan, tickPending, ticks, diag, fvars, logs>>

\* the ticker delivers a tick: to the goroutine parked in the select, which
\* is woken with the ticker case, or into the one-slot buffer of ticker.C
Tick ==
    /\ ptask \notin {"none", "start", "done"}
    /\ ticks < MaxTicks
    /\ ~tickPending
    /\ ticks' = ticks + 1
    /\ IF ptask = "blocked"
       THEN ptask' = "tick" /\ UNCHANGED tickPending
       ELSE tickPending' = TRUE /\ UNCHANGED ptask
    /\ UNCHANGED <<cfg, pstate, ctxErr, eloc, eret, sync, diag, fvars, logs>>

\* case <-stopChan: return; the deferred ticker.Stop() and wg.Done() run
IntervalStopCase ==
    /\ ptask' = "done"
    /\ wg' = wg - 1
    /\ UNCHANGED <<tickPending, ticks>>

\* case <-ticker.C: the tick is taken
IntervalTickCase ==
    /\ tickPending' = FALSE
    /\ ptask' = "tick"
    /\ UNCHANGED <<wg, ticks>>

\* the select of the loop is evaluated: a ready case is chosen, any of them
\* if both are ready; with none ready the goroutine parks
IntervalSelect ==
    /\ ptask = "select"
    /\ \/ stopChan = "closed" /\ IntervalStopCase
       \/ tickPending /\ IntervalTickCase
       \/ /\ stopChan # "closed" /\ ~tickPending
          /\ ptask' = "blocked"
          /\ UNCHANGED <<wg, tickPending, ticks>>
    /\ UNCHANGED <<cfg, pstate, ctxErr, eloc, eret, stopChan, diag, fvars, logs>>

\* the goroutine woken by close(stopChan) runs the stop case
IntervalWokenByStop ==
    /\ ptask = "wokeStop"
    /\ IntervalStopCase
    /\ UNCHANGED <<cfg, pstate, ctxErr, eloc, eret, stopChan, diag, fvars, logs>>

\* the ticker case calls c.getScreenshotFilename()
IntervalFilename ==
    /\ ptask = "tick"
    /\ fpc["interval"] = "idle"
    /\ fpc' = [fpc EXCEPT !["interval"] = "lock"]
    /\ ptask' = "name"
    /\ UNCHANGED <<cfg, pstate, ctxErr, eloc, eret, sync, tickPending, ticks, diag, mu,
                   screenshotCount, fname, logs>>

\* the ticker case starts c.captureScreenshot(ctx, filename)
IntervalCaptureStart ==
    /\ ptask = "name"
    /\ fpc["interval"] = "ret"
    /\ fpc' = [fpc EXCEPT !["interval"] = "idle"]
    /\ shots' = Append(shots, Shot("interval", "periodic"))
    /\ ptask' = "capturing"
    /\ UNCHANGED <<cfg, pstate, ctxErr, eloc, eret, sync, tickPending, ticks, diag, mu,
                   screenshotCount, fname, issued, sent, files, ops>>

\* a periodic task that gives up after a failed capture
IntervalCaptureEnd_FailExits ==
    /\ ptask = "capturing"
    /\ \/ /\ CallCanSucceed
          /\ files' = files \cup {fname["interval"]}
          /\ ptask' = "select"
          /\ UNCHANGED <<diag, wg>>
       \/ /\ \E e \in CaptureErrors : TRUE
          /\ diag' = diag + 1
          /\ ptask' = "done"
          /\ wg' = wg - 1
          /\ UNCHANGED files
    /\ UNCHANGED <<cfg, pstate, ctxErr, eloc, eret, stopChan, tickPending, ticks, fvars, issued, sent,
                   shots, ops>>

\* captureScreenshot returns: a failure is only reported, the loop goes on
IntervalCaptureEnd ==
    /\ ptask = "capturing"
    /\ \/ /\ CallCanSucceed
          /\ files' = files \cup {fname["interval"]}
          /\ UNCHANGED diag
       \/ /\ \E e \in CaptureErrors : TRUE
          /\ diag' = diag + 1
          /\ UNCHANGED files
    /\ ptask' = "select"
    /\ UNCHANGED <<cfg, pstate, ctxErr, eloc, eret, sync, tickPending, ticks, fvars, issued, sent,
                   shots, ops>>

(***************************************************************************)
(* The whole program.                                                      *)
(***************************************************************************)
RunSetup == RunMkdir \/ RunTtydStart \/ RunNavigate

RunCapture == RunFilename \/ RunCaptureStart \/ RunCaptureEnd

Wait == TimerFire \/ WaitBlock \/ WaitCancelled \/ WaitElapsed

executeTypeAction == executeTypeActionCheck \/ executeTypeActionSend \/ executeTypeActionSent

executeKeyAction == executeKeyActionCheck \/ executeKeyActionSend \/ executeKeyActionSent

executeCtrlAction == executeCtrlActionSend \/ executeCtrlActionSent

executeKeypresses == executeKeypressesLoop \/ executeKeypressesSend \/ executeKeypressesSent

captureIntervalScreenshots ==
    \/ IntervalStart
    \/ Tick
    \/ IntervalSelect
    \/ IntervalWokenByStop
    \/ IntervalFilename
    \/ IntervalCaptureStart
    \/ IntervalCaptureEnd

Next ==
    \/ Cancel
    \/ RunSetup
    \/ RunCapture
    \/ RunSpawn
    \/ executeActions
    \/ executeSingleAction
    \/ executeTypeAction
    \/ executeKeyAction
    \/ executeCtrlAction
    \/ executeKeypresses
    \/ Wait
    \/ StopOnFailure
    \/ WaitOnFailure
    \/ RunStopInterval
    \/ RunJoin
    \/ getScreenshotFilename
    \/ captureIntervalScreenshots

Spec == Init /\ [][Next]_vars

(***************************************************************************)
(* Fair scheduling: every goroutine that can take a step eventually takes  *)
(* one, and armed timers fire.  Cancellation and ticks are up to the       *)
(* environment.                                                            *)
(***************************************************************************)
RunStep ==
    \/ RunSetup
    \/ RunCapture
    \/ RunSpawn
    \/ executeActions
    \/ executeSingleAction
    \/ executeTypeAction
    \/ executeKeyAction
    \/ executeCtrlAction
    \/ executeKeypresses
    \/ WaitBlock \/ WaitCancelled \/ WaitElapsed
    \/ StopOnFailure
    \/ WaitOnFailure
    \/ RunStopInterval
    \/ RunJoin
    \/ Lock("run") \/ Incr("run") \/ FormatUnlock("run")

IntervalStep ==
    \/ IntervalStart
    \/ IntervalSelect
    \/ IntervalWokenByStop
    \/ IntervalFilename
    \/ IntervalCaptureStart
    \/ IntervalCaptureEnd
    \/ Lock("interval") \/ Incr("interval") \/ FormatUnlock("interval")

FairSpec ==
    /\ Init
    /\ [][Next]_vars
    /\ WF_vars(RunStep)
    /\ WF_vars(IntervalStep)
    /\ WF_vars(TimerFire)

(***************************************************************************)
(* getScreenshotFilename under concurrent callers: a Capturer built as in  *)
(* TestCapturer_getScreenshotFilename, with both goroutines calling the    *)
(* method any number of times in any interleaving.                         *)
(***************************************************************************)
\* calls of getScreenshotFilename explored
MaxCalls == 4

\* the counter values the test starts from
TestCounters == {0, 9, 99}

InitFilename ==
    /\ cfg = [Actions |-> <<>>, Keypresses |-> <<>>, Delays |-> <<>>, ScreenshotInterval |-> 0]
    /\ ctxErr = <<>>
    /\ pc = "test"
    /\ ai = 0
    /\ ci = 0
    /\ wk = ""
    /\ wstate = ""
    /\ timerFired = FALSE
    /\ perr = <<>>
    /\ returned = FALSE
    /\ result = <<>>
    /\ endedBy = ""
    /\ ttyd = "new"
    /\ stopChan = "nil"
    /\ wg = 0
    /\ ptask = "none"
    /\ tickPending = FALSE
    /\ ticks = 0
    /\ diag = 0
    /\ mu = ""
    /\ screenshotCount \in TestCounters
    /\ fpc = [g \in Goroutines |-> "idle"]
    /\ fname = [g \in Goroutines |-> <<>>]
    /\ issued = <<>>
    /\ sent = <<>>
    /\ shots = <<>>
    /\ files = {}
    /\ ops = <<>>
    /\ ParseIdle

\* calls that have started and not yet returned
InCall == {g \in Goroutines : fpc[g] \in {"lock", "incr", "format"}}

\* goroutine g calls c.getScreenshotFilename()
CallFilename(g) ==
    /\ fpc[g] \in {"idle", "ret"}
    /\ Len(issued) + Cardinality(InCall) < MaxCalls
    /\ fpc' = [fpc EXCEPT ![g] = "lock"]
    /\ UNCHANGED <<cfg, pstate, ctxErr, eloc, eret, sync, pvars, mu, screenshotCount, fname, logs>>

NextFilename ==
    \E g \in Goroutines : CallFilename(g) \/ Lock(g) \/ Incr(g) \/ FormatUnlock(g)

SpecFilename == InitFilename /\ [][NextFilename]_vars

(***************************************************************************)
(* script.Parse, run on its own.                                           *)
(***************************************************************************)
cvars == <<cfg, ctxErr, eloc, eret, sync, pvars, fvars, logs>>

InitParse ==
    /\ cfg = [Actions |-> <<>>, Keypresses |-> <<>>, Delays |-> <<>>, ScreenshotInterval |-> 0]
    /\ ctxErr = <<>>
    /\ pc = "parse"
    /\ ai = 0
    /\ ci = 0
    /\ wk = ""
    /\ wstate = ""
    /\ timerFired = FALSE
    /\ perr = <<>>
    /\ returned = FALSE
    /\ result = <<>>
    /\ endedBy = ""
    /\ ttyd = "new"
    /\ stopChan = "nil"
    /\ wg = 0
    /\ ptask = "none"
    /\ tickPending = FALSE
    /\ ticks = 0
    /\ diag = 0
    /\ mu = ""
    /\ screenshotCount = 0
    /\ fpc = [g \in Goroutines |-> "idle"]
    /\ fname = [g \in Goroutines |-> <<>>]
    /\ issued = <<>>
    /\ sent = <<>>
    /\ shots = <<>>
    /\ files = {}
    /\ ops = <<>>
    /\ input \in ScriptTexts
    /\ parser = NoParser
    /\ pactions = <<>>
    /\ ppc = "new"
    /\ ret = NoResult
    /\ report = <<>>

\* l := newLexer(script); p := newParser(l); actions := []Action{}
ParseNew ==
    /\ ppc = "new"
    /\ parser' = newParser(input)
    /\ ppc' = "loop"
    /\ UNCHANGED <<cvars, input, pactions, ret, report>>

\* a parse that hands back the actions parsed so far together with the error
ErrorResult_Partial(acts, err) == [actions |-> acts, err |-> err]

\* return nil, err
ErrorResult(acts, err) == [actions |-> <<>>, err |-> err]

\* the loop of Parse with the result r of parseAction: append, or return the error
ParseStep(r) ==
    /\ parser' = r.p
    /\ IF r.err = NoParseError
       THEN /\ pactions' = Append(pactions, r.action)
            /\ UNCHANGED <<ppc, ret>>
       ELSE /\ ret' = ErrorResult(pactions, r.err)
            /\ ppc' = "done"
            /\ UNCHANGED pactions

\* one turn of the loop of Parse
ParseLoop ==
    /\ ppc = "loop"
    /\ parser.curToken.kind # tokenEOF
    /\ ParseStep(parseAction(input, parser))
    /\ UNCHANGED <<cvars, input, report>>

\* p.curToken.kind == tokenEOF: return actions, nil
ParseReturn ==
    /\ ppc = "loop"
    /\ parser.curToken.kind = tokenEOF
    /\ ret' = [actions |-> pactions, err |-> NoParseError]
    /\ ppc' = "done"
    /\ UNCHANGED <<cvars, input, parser, pactions, report>>

RECURSIVE ParseFrom(_, _, _)

\* one turn of the loop of Parse, r being the result of p.parseAction()
ParseTurn(in, r, acts) ==
    IF r.err # NoParseError THEN [actions |-> <<>>, err |-> r.err]
    ELSE ParseFrom(in, r.p, Append(acts, r.action))

\* the loop of Parse run to its end from the parser P with the actions acts
ParseFrom(in, P, acts) ==
    IF P.curToken.kind = tokenEOF THEN [actions |-> acts, err |-> NoParseError]
    ELSE ParseTurn(in, parseAction(in, P), acts)

\* Parse(script): the actions and the error it returns
Parse(in) == ParseFrom(in, newParser(in), <<>>)

\* fmt.Sprintf("%d", n)
SprintfD(n) == [i \in DOMAIN Digits(n) |-> Chr(48 + Digits(n)[i])]

\* (e *ParseError).Error(): the pieces of the text, in order; Message stands
\* for the formatted message
Error(e) == <<"parse error at position ">> \o SprintfD(e.Position) \o <<": ", e.Message>>

\* runWithPositionalArgs after script.Parse: fmt.Errorf("parse script: %w", err)
runWithPositionalArgs ==
    /\ ppc = "done"
    /\ ppc' = "reported"
    /\ report' = IF ret.err # NoParseError
                 THEN <<"parse script", ": ">> \o Error(ret.err)
                 ELSE <<>>
    /\ UNCHANGED <<cvars, input, parser, pactions, ret>>

NextParse == ParseNew \/ ParseLoop \/ ParseReturn \/ runWithPositionalArgs

SpecParse == InitParse /\ [][NextParse]_vars

(***************************************************************************)
(* Properties.                                                             *)
(***************************************************************************)
\* Run returned through the failure path of an input dispatch
ReturnedDispatchFailure == returned /\ pc \in {"fail", "failWait"}

\* the shots started by the periodic task
PeriodicShots == {i \in DOMAIN shots : shots[i].by = "interval"}

\* a step in which the periodic task starts a captureScreenshot call
PeriodicCaptureStarts == ptask # "capturing" /\ ptask' = "capturing"

\* C1: when an input dispatch (Type character, Key repeat, Ctrl keystroke,
\* legacy keypress) fails, Run returns the wrapped error only after it has
\* closed the stop channel and the periodic task has finished; once Run has
\* returned that failure the periodic task requests no filename and starts
\* no capture.
C1_FailureJoinsPeriodicTask ==
    /\ [](ReturnedDispatchFailure =>
            /\ result = perr
            /\ Len(result) >= 2
            /\ stopChan # "open"
            /\ wg = 0
            /\ ptask \in {"none", "done"})
    /\ [][ReturnedDispatchFailure => (shots' = shots /\ issued' = issued)]_vars

C1_Witness ==
    /\ ReturnedDispatchFailure
    /\ endedBy = "renderer"
    /\ stopChan = "closed"
    /\ PeriodicShots # {}
    /\ sent # <<>>

\* C2: while Run obtains the final filename and takes the final capture the
\* periodic task has been signalled and has finished, and no periodic shot
\* follows the final shot in the order of capture calls.
C2_FinalCaptureAfterJoin ==
    /\ pc \in {"finalName", "finalShot", "finalCapturing"} =>
          /\ stopChan # "open"
          /\ wg = 0
          /\ ptask \in {"none", "done"}
          /\ fpc["interval"] = "idle"
    /\ \A i, j \in DOMAIN shots :
          (i < j /\ shots[i].phase = "final") => shots[j].phase # "periodic"

C2_Witness ==
    /\ pc = "finalCapturing"
    /\ stopChan = "closed"
    /\ PeriodicShots # {}

\* C3: once the context is cancelled while the engine is parked in a wait,
\* the engine takes no step other than returning ctx.Err() from Run, and no
\* Renderer input call is issued from then on.
C3_CancelledWaitEndsRun ==
    [][wstate = "wokeDone" =>
          /\ wstate' = "wokeDone"
          /\ pc' = pc /\ ai' = ai /\ ci' = ci
          /\ sent' = sent
          /\ returned' => (result' = ctxErr /\ IsCancelled(result'))]_vars

C3_Witness ==
    /\ returned
    /\ wstate = "wokeDone"
    /\ wk = "sleep"
    /\ ai = 1
    /\ Len(cfg.Actions) = 4
    /\ sent = <<>>
    /\ IsCancelled(result)

\* C4: after the context is cancelled the periodic task eventually
\* terminates (or was never started).
C4_PeriodicTaskTerminatesAfterCancel == (ctxErr # <<>>) ~> (ptask \in {"none", "done"})

\* C5: a run that ended because the context was cancelled or timed out
\* returns an error for which errors.Is reports Canceled or DeadlineExceeded,
\* and a run that ended because a Renderer call broke returns an error for
\* which it reports neither.
C5_OutcomeMatchesCause ==
    returned =>
        /\ endedBy = "ctx" => IsCancelled(result)
        /\ endedBy = "renderer" => (result # <<>> /\ ~IsCancelled(result))
        /\ endedBy = "ok" => result = <<>>

\* the cancellation arrived while an input dispatch was in flight
C5_Witness ==
    /\ returned
    /\ endedBy = "ctx"
    /\ pc = "failWait"
    /\ result[1] = "send character"
    /\ sent # <<>>

\* the input events an action asks for: the characters of Text in order,
\* Repeat copies of Key (one when Repeat is not positive), one Ctrl event
EventsOf(action) ==
    CASE action.Kind = ActionType -> action.Text
      [] action.Kind = ActionKey ->
            [i \in 1..(IF action.Repeat >= 1 THEN action.Repeat ELSE 1) |-> action.Key]
      [] action.Kind = ActionCtrl -> << sCtrlPlus \o action.Key >>
      [] OTHER -> <<>>

RECURSIVE Flatten(_)
Flatten(actions) ==
    IF actions = <<>> THEN <<>> ELSE EventsOf(Head(actions)) \o Flatten(Tail(actions))

\* the keys handed to the Renderer so far
SentKeys == [i \in DOMAIN sent |-> sent[i].key]

IsPrefix(p, q) == Len(p) <= Len(q) /\ SubSeq(q, 1, Len(p)) = p

\* C6: in structured mode the input events dispatched so far are a prefix
\* of the flattened event sequence of the script.
C6_InputsInScriptOrder ==
    Len(cfg.Actions) > 0 => IsPrefix(SentKeys, Flatten(cfg.Actions))

C6_Witness ==
    /\ Len(cfg.Actions) = 3
    /\ Len(sent) = 5
    /\ SentKeys = Flatten(cfg.Actions)
    /\ sent[3].key = sDown /\ sent[4].key = sDown
    /\ sent[5].ctrl

\* the value of the counter before the first name was issued
CounterBase ==
    screenshotCount - Len(issued) - Cardinality({g \in Goroutines : fpc[g] = "format"})

\* C7: the names handed out are those of consecutive sequence numbers, in
\* the order the calls return: the i-th name issued carries number base+i,
\* so no number is issued twice and none is skipped.
C7_FilenamesConsecutive ==
    \A i \in DOMAIN issued : issued[i] = Sprintf03d(CounterBase + i)

\* one goroutine waits for the mutex held by the other, after names were issued
C7_Witness ==
    /\ Len(issued) >= 2
    /\ fpc["run"] = "lock"
    /\ mu = "interval"
    /\ fpc["interval"] = "format"

\* C8: no capture by the periodic task starts after the stop channel has
\* been closed.
C8_NoPeriodicCaptureAfterStop ==
    [][stopChan = "closed" => ~PeriodicCaptureStarts]_vars

\* C9: a failed periodic capture changes nothing of the run (its position,
\* its result, the stop channel) and sends the periodic task back to its
\* select; the periodic task ends only after the stop channel was closed.
C9_PeriodicFailureNonFatal ==
    /\ [](ptask = "done" => stopChan = "closed")
    /\ [][diag' # diag =>
            /\ ptask = "capturing" /\ ptask' = "select"
            /\ UNCHANGED <<eloc, eret, sync>>]_vars

\* a periodic capture failed, a later one was written, and the run succeeded
C9_Witness ==
    /\ diag >= 1
    /\ returned /\ result = <<>>
    /\ \E i, j \in PeriodicShots :
          i < j /\ shots[i].name \notin files /\ shots[j].name \in files

\* every input event the configuration asks for has been dispatched
SentComplete ==
    SentKeys = IF Len(cfg.Actions) > 0 THEN Flatten(cfg.Actions) ELSE cfg.Keypresses

\* C10: the initial capture, numbered 1, is complete before the periodic
\* task exists and before any input call; the final capture starts only
\* after every input event was dispatched; and on a successful run the
\* capture calls are the initial one, then periodic ones, then the final
\* one, numbered 1..n in that order.
C10_CaptureSequence ==
    /\ (ptask # "none" \/ sent # <<>> \/ Len(shots) >= 2) =>
          /\ Len(shots) >= 1
          /\ shots[1] = [by |-> "run", name |-> Sprintf03d(1), phase |-> "initial"]
          /\ shots[1].name \in files
    /\ (\E i \in DOMAIN shots : shots[i].phase = "final") => SentComplete
    /\ (returned /\ result = <<>>) =>
          LET n == Len(shots) IN
          /\ n >= 2
          /\ shots[n].phase = "final" /\ shots[n].by = "run"
          /\ \A i \in 2..(n - 1) : shots[i].phase = "periodic" /\ shots[i].by = "interval"
          /\ \A i \in 1..n : shots[i].name = Sprintf03d(i)
          /\ screenshotCount = n

C10_Witness ==
    /\ returned /\ result = <<>>
    /\ Len(shots) = 4
    /\ Len(sent) = 5

(***************************************************************************)
(* The steps of one action.                                                *)
(***************************************************************************)
\* the recorded steps of the engine that belong to action (or legacy key) i
OpsAt(i) == SelectSeq(ops, LAMBDA e : e[1] # "exec" /\ e[2] = i)

\* a cancellable wait of d that ran to its end
WaitOps(i, d) == IF d > 0 THEN << <<"wait", i, d>>, <<"elapsed", i>> >> ELSE <<>>

\* the steps of the characters k.. of the Type action at index i
RECURSIVE CharOps(_, _)
CharOps(i, k) ==
    IF k > Len(cfg.Actions[i].Text) THEN <<>>
    ELSE << <<"check", i>>, <<"send", i, cfg.Actions[i].Text[k]>> >>
         \o WaitOps(i, cfg.Actions[i].Speed) \o CharOps(i, k + 1)

TypeOps(i) == CharOps(i, 1) \o WaitOps(i, cfg.Actions[i].Delay)

\* n repeats of the Key action at index i
RECURSIVE RepeatOps(_, _)
RepeatOps(i, n) ==
    IF n = 0 THEN <<>>
    ELSE << <<"check", i>>, <<"send", i, cfg.Actions[i].Key>> >> \o RepeatOps(i, n - 1)

KeyOps(i) == RepeatOps(i, cfg.Actions[i].Repeat) \o WaitOps(i, cfg.Actions[i].Delay)

\* the indices of the actions of a kind
ActionsOf(kind) == {i \in 1..Len(cfg.Actions) : cfg.Actions[i].Kind = kind}

\* C11: the steps made for a Type action are, per character in order, a
\* cancellation check, the dispatch of that character and, when Speed > 0, a
\* wait of Speed; then, when Delay > 0, one wait of Delay; nothing else, and
\* all of them once the action is over.
C11_TypeActionSteps ==
    \A i \in ActionsOf(ActionType) :
        /\ IsPrefix(OpsAt(i), TypeOps(i))
        /\ ai > i => OpsAt(i) = TypeOps(i)

C11_Witness ==
    /\ Len(cfg.Actions) = 4
    /\ cfg.Actions[2].Kind = ActionType
    /\ ai = 3
    /\ Len(OpsAt(2)) = 8
    /\ OpsAt(2)[3] = <<"wait", 2, 50>>

\* C12: the steps made for a Key action with Repeat >= 1 are Repeat times a
\* cancellation check followed by the dispatch of the key, with no wait in
\* between, then one wait of Delay when Delay > 0; nothing else, and all of
\* them once the action is over.
C12_KeyActionSteps ==
    \A i \in ActionsOf(ActionKey) :
        cfg.Actions[i].Repeat >= 1 =>
            /\ IsPrefix(OpsAt(i), KeyOps(i))
            /\ ai > i => OpsAt(i) = KeyOps(i)

C12_Witness ==
    /\ Len(cfg.Actions) = 3
    /\ cfg.Actions[2].Kind = ActionKey
    /\ cfg.Actions[2].Repeat = 2
    /\ ai = 3
    /\ OpsAt(2) = << <<"check", 2>>, <<"send", 2, sDown>>, <<"check", 2>>, <<"send", 2, sDown>>,
                     <<"wait", 2, 200>>, <<"elapsed", 2>> >>

\* C13: for a Key action written with a delay (<Key>@<duration>) the delay
\* comes before the keypress: the key is dispatched only after a wait of the
\* action has elapsed.
C13_KeyDelayBeforeKeypress ==
    \A i \in ActionsOf(ActionKey) :
        cfg.Actions[i].Delay > 0 =>
            \A k \in 1..Len(OpsAt(i)) :
                OpsAt(i)[k][1] = "send" =>
                    \E j \in 1..(k - 1) : OpsAt(i)[j] = <<"elapsed", i>>

(***************************************************************************)
(* Legacy mode.                                                            *)
(***************************************************************************)
LegacyPcs == {"legacy", "legacySend", "legacySending"}

StructuredPcs ==
    {"action", "typeCheck", "typeSend", "typeSending", "keyCheck", "keySend", "keySending",
     "ctrlSend", "ctrlSending"}

\* the steps of the legacy keys i..: every key but the first after the wait
\* of the delay before it has elapsed
RECURSIVE LegacyOps(_)
LegacyOps(i) ==
    IF i > Len(cfg.Keypresses) THEN <<>>
    ELSE (IF i > 1 THEN << <<"wait", i, cfg.Delays[i - 1]>>, <<"elapsed", i>> >> ELSE <<>>)
         \o << <<"send", i, cfg.Keypresses[i]>> >> \o LegacyOps(i + 1)

\* the recorded steps of executeKeypresses
OpsLegacy == SelectSeq(ops, LAMBDA e : e[1] # "exec" /\ e[2] <= Len(cfg.Keypresses))

\* C14: legacy mode runs exactly when no Action sequence is supplied; it
\* dispatches the keys in list order, the first with no wait before it and
\* every later key only after the delay before it has elapsed; with a
\* non-empty Action sequence no legacy key is dispatched.
C14_LegacyModeSteps ==
    IF cfg.Actions = <<>>
    THEN /\ pc \notin StructuredPcs
         /\ IsPrefix(OpsLegacy, LegacyOps(1))
         /\ pc \in {"stopInterval", "join", "finalName", "finalShot", "finalCapturing"}
                => OpsLegacy = LegacyOps(1)
    ELSE /\ pc \notin LegacyPcs
         /\ wk # "legacy"
         /\ IsPrefix(SentKeys, Flatten(cfg.Actions))

C14_Witness ==
    /\ cfg.Actions = <<>>
    /\ pc = "stopInterval"
    /\ OpsLegacy = << <<"send", 1, <<"a">> >>, <<"wait", 2, 100>>, <<"elapsed", 2>>,
                      <<"send", 2, <<"e", "n", "t", "e", "r">> >> >>

\* the context was already cancelled when executeActions was entered
StartedCancelled == \E k \in 1..Len(ops) : ops[k] = <<"exec", TRUE>>

\* an Action sequence Key k0, Sleep d0, Key k1, ...
KeySleepScript ==
    /\ cfg.Actions # <<>>
    /\ \A i \in 1..Len(cfg.Actions) :
          cfg.Actions[i].Kind = (IF i % 2 = 1 THEN ActionKey ELSE ActionSleep)

\* C15: legacy mode behaves as the structured run Key k0, Sleep d0, Key k1,
\* ... does; in particular a run whose context is already cancelled when
\* execution starts issues no Renderer input call and ends as Cancelled, in
\* legacy mode as in structured mode.
C15_LegacyMatchesStructured ==
    (returned /\ StartedCancelled /\ (KeySleepScript \/ (cfg.Actions = <<>> /\ cfg.Keypresses # <<>>)))
        => sent = <<>> /\ IsCancelled(result)

(***************************************************************************)
(* Parse.                                                                  *)
(***************************************************************************)
ParseFailed == ppc = "done" /\ ret.err # NoParseError

ParseSucceeded == ppc = "done" /\ ret.err = NoParseError

\* C16: Parse returns either every action of the input with no error, or an
\* error with no action at all, whatever was parsed before the malformed
\* action; it returns nothing before that.
C16_ParseAllOrNothing ==
    /\ ppc \notin {"done", "reported"} => ret = NoResult
    /\ ParseFailed => ret.actions = <<>>
    /\ ParseSucceeded => ret.actions = pactions /\ parser.curToken.kind = tokenEOF

C16_Witness ==
    /\ ParseFailed
    /\ pactions # <<>>
    /\ ret.actions = <<>>

WhiteSpace == {" ", "0x09", "0x0A", "0x0D"}

\* C17: the Position of a ParseError is the offset of the first byte of the
\* token at which parsing failed: a token the lexer returned starts there, an
\* unknown key or an invalid duration is spelled there, a token that is not
\* the required duration or quoted string starts there; 0 for `Foo`, 12 for
\* `Type 'test' Foo`, 5 for `Type hello`, 6 for `Sleep 500`.
C17_ErrorPositionIsTokenStart ==
    ParseFailed =>
        LET e == ret.err
            pos == e.Position
        IN /\ \E k \in 1..Len(parser.toks) : parser.toks[k].position = pos
           /\ ch(input, pos) \notin WhiteSpace
           /\ e.Message \in {UnknownKey, InvalidDuration} =>
                 /\ e.Arg # <<>>
                 /\ Bytes(input, pos, pos + Len(e.Arg)) = e.Arg
                 /\ pos = 0 \/ ~(isLetter(ch(input, pos - 1)) \/ isDigit(ch(input, pos - 1)))
           /\ e.Message \in {ExpectedDurationAt, ExpectedDurationSleep} =>
                 ~isDigit(ch(input, pos))
           /\ e.Message = ExpectedString => ch(input, pos) \notin {"'", "0x22"}
           /\ input = <<"F", "o", "o">> => pos = 0 /\ e.Message = UnknownKey
           /\ input = <<"T", "y", "p", "e", " ", "'", "t", "e", "s", "t", "'", " ", "F", "o", "o">> => pos = 12 /\ e.Message = UnknownKey
           /\ input = <<"T", "y", "p", "e", " ", "h", "e", "l", "l", "o">> => pos = 5 /\ e.Message = ExpectedString
           /\ input = <<"S", "l", "e", "e", "p", " ", "5", "0", "0">> => pos = 6 /\ e.Message = InvalidDuration

C17_Witness ==
    /\ ParseFailed
    /\ input = <<"T", "y", "p", "e", " ", "'", "t", "e", "s", "t", "'", " ", "F", "o", "o">>
    /\ ret.err.Position = 12

\* the token after peekToken: the next one the lexer will return
ThirdToken == nextToken(input, parser.l).tok

\* Parse is at `Sleep <integer>`
BareAfterSleep ==
    /\ ppc = "loop"
    /\ parser.curToken.kind = tokenIdent
    /\ ToLower(parser.curToken.literal) = sSleep
    /\ parser.peekToken.kind = tokenNumber

\* Parse is at `Type@<integer>` or `<Key>@<integer>`
BareAfterAt ==
    /\ ppc = "loop"
    /\ parser.curToken.kind = tokenIdent
    /\ ToLower(parser.curToken.literal) \in validKeys \cup {sType}
    /\ parser.peekToken.kind = tokenAt
    /\ ThirdToken.kind = tokenNumber

BareToken == IF BareAfterSleep THEN parser.peekToken ELSE ThirdToken

\* C18: an integer literal without a unit where a duration is required
\* (after Sleep, after Type@, after <Key>@) makes Parse return an
\* invalid-duration error at the position of that literal.
C18_BareIntegerRejected ==
    [][(BareAfterSleep \/ BareAfterAt) =>
          /\ ppc' = "done"
          /\ ret'.err.Message = InvalidDuration
          /\ ret'.err.Position = BareToken.position]_vars

\* C19: every Key action of a successful Parse has Repeat >= 1.
C19_KeyRepeatAtLeastOne ==
    ParseSucceeded =>
        \A i \in 1..Len(ret.actions) :
            ret.actions[i].Kind = ActionKey => ret.actions[i].Repeat >= 1

\* C20: every Ctrl action of a successful Parse has as Key exactly one
\* lowercase letter; `Ctrl+`, `Ctrl+CC` and `Ctrl+1` produce no Ctrl action.
C20_CtrlKeyOneLowercaseLetter ==
    ParseSucceeded =>
        \A i \in 1..Len(ret.actions) :
            ret.actions[i].Kind = ActionCtrl =>
                /\ Len(ret.actions[i].Key) = 1
                /\ Ord(ret.actions[i].Key[1]) >= 97
                /\ Ord(ret.actions[i].Key[1]) <= 122

\* Parse is at an identifier that is neither Type, Sleep, a Ctrl+ form nor a
\* recognized key name
AtUnknownIdent ==
    /\ ppc = "loop"
    /\ parser.curToken.kind = tokenIdent
    /\ ToLower(parser.curToken.literal) \notin validKeys \cup {sType, sSleep}
    /\ ~HasPrefix(ToLower(parser.curToken.literal), sCtrlPlus)

\* C21: every Key action of a successful Parse has a name that, lowercased,
\* is one of the fourteen recognized key names; an identifier where a command
\* is expected that is not Type, Sleep, a Ctrl+ form or such a name makes
\* Parse return an unknown-key error naming it.
C21_KeyNamesEnumerated ==
    [][/\ ParseSucceeded' =>
              \A i \in 1..Len(ret'.actions) :
                  ret'.actions[i].Kind = ActionKey =>
                      ToLower(ret'.actions[i].Key) \in validKeys
       /\ AtUnknownIdent =>
              /\ ppc' = "done"
              /\ ret'.err.Message = UnknownKey
              /\ ret'.err.Arg = parser.curToken.literal]_vars

C21_Witness ==
    /\ ParseSucceeded
    /\ \E i \in 1..Len(ret.actions) :
           /\ ret.actions[i].Kind = ActionKey
           /\ ret.actions[i].Key # ToLower(ret.actions[i].Key)
           /\ ToLower(ret.actions[i].Key) \in validKeys

\* Parse has just appended a Ctrl action and is at the token that follows it
AfterCtrlAction ==
    /\ ppc = "loop"
    /\ pactions # <<>>
    /\ pactions[Len(pactions)].Kind = ActionCtrl

\* the token after a Ctrl action is an integer, or '@' before a duration
AtCtrlModifier ==
    /\ AfterCtrlAction
    /\ \/ parser.curToken.kind = tokenNumber
       \/ /\ parser.curToken.kind = tokenAt
          /\ parser.peekToken.kind = tokenDuration

\* C22: a Ctrl+<letter> token immediately followed by @<duration> or by an
\* integer makes Parse return a ParseError, at the position of the '@' or of
\* the integer; no Ctrl action that Parse builds has a Delay or a Repeat.
C22_NoModifierOnCtrl ==
    [][/\ AtCtrlModifier =>
              /\ ppc' = "done"
              /\ ret'.err # NoParseError
              /\ ret'.err.Position = parser.curToken.position
              /\ ret'.actions = <<>>
       /\ \A i \in 1..Len(pactions') :
              pactions'[i].Kind = ActionCtrl =>
                  pactions'[i].Delay = 0 /\ pactions'[i].Repeat = 0]_vars

C22_Witness ==
    /\ ParseFailed
    /\ pactions # <<>>
    /\ pactions[Len(pactions)].Kind = ActionCtrl
    /\ parser.curToken.kind = tokenNumber
    /\ ret.err.Position = parser.curToken.position

\* a byte nextToken passes over without a token: whitespace, or a byte of the
\* default case that is neither a digit nor a letter
Blank(b) ==
    \/ b \in WhiteSpace
    \/ b \notin {"@", "+", "'", "0x22", "0x00"} /\ ~isDigit(b) /\ ~isLetter(b)

\* C23: for the empty input and for every input made only of whitespace and
\* of bytes the lexer skips, Parse returns the empty Action sequence and no
\* error.
C23_BlankInputParsesEmpty ==
    (ppc = "done" /\ \A k \in 1..Len(input) : Blank(input[k])) =>
        ret = [actions |-> <<>>, err |-> NoParseError]

C23_Witness ==
    /\ ParseSucceeded
    /\ ret.actions = <<>>
    /\ \A k \in 1..Len(input) : Blank(input[k])
    /\ \E k \in 1..Len(input) : input[k] \notin WhiteSpace

\* the token t is spelled in the input from offset t.position on: a string
\* token starts at its opening quote, any other token at its first byte
StartsAtPosition(t) ==
    IF t.kind = tokenString
    THEN /\ ch(input, t.position) \in {"'", "0x22"}
         /\ Bytes(input, t.position + 1, t.position + 1 + Len(t.literal)) = t.literal
    ELSE /\ t.literal # <<>>
         /\ t.position < Len(input)
         /\ Bytes(input, t.position, t.position + Len(t.literal)) = t.literal

\* C24: in the tokens the lexer has returned, every token with characters is
\* at the zero-based offset of its first character, positions never
\* decrease, the end-of-input token is returned only where the lexer reads
\* the byte 0, and every token returned after an end-of-input token is that
\* same token.
C24_TokenPositions ==
    \A k \in 1..Len(parser.toks) :
        LET t == parser.toks[k] IN
        /\ t.kind # tokenEOF => StartsAtPosition(t)
        /\ t.kind = tokenEOF => t.literal = <<>> /\ ch(input, t.position) = "0x00"
        /\ k > 1 => parser.toks[k - 1].position <= t.position
        /\ (k > 1 /\ parser.toks[k - 1].kind = tokenEOF) => t = parser.toks[k - 1]

C24_Witness ==
    /\ ppc = "done"
    /\ Len(parser.toks) >= 5
    /\ \E k \in 1..Len(parser.toks) :
           parser.toks[k].kind = tokenString /\ parser.toks[k].position > 0
    /\ parser.toks[Len(parser.toks) - 1].kind = tokenEOF
    /\ parser.toks[Len(parser.toks)] = parser.toks[Len(parser.toks) - 1]

\* C25: a parse failure is reported as "position <offset>: <message>", with
\* the zero-based byte offset in decimal, and the command prints it after
\* "parse script: ".
C25_ParseErrorText ==
    (ppc = "reported" /\ ret.err # NoParseError) =>
        /\ Error(ret.err) =
               <<"position ">> \o SprintfD(ret.err.Position) \o <<": ", ret.err.Message>>
        /\ report = <<"parse script", ": ", "position ">>
                        \o SprintfD(ret.err.Position) \o <<": ", ret.err.Message>>

(***************************************************************************)
(* The terminal-sharing subprocess, the action sequence, the end of Run.   *)
(***************************************************************************)
\* a step in which a Renderer call is made or completes: a page-loading
\* call, a capture, an input dispatch
RendererCall ==
    \/ pc \in {"navigate", "viewport", "waitTerm"} /\ (pc' # pc \/ returned')
    \/ shots' # shots
    \/ sent' # sent

\* C26: c.ttyd.Start has succeeded before any Renderer call (navigation,
\* capture, input), and whenever Run returns after Start has succeeded,
\* c.ttyd.Stop has been invoked: on success, on a Renderer failure, on a
\* capture failure and on cancellation.
C26_TtydStartedBeforeStoppedAfter ==
    [][/\ RendererCall => ttyd # "new"
       /\ (ttyd = "started" /\ ~returned /\ returned') => ttyd' = "stopped"
       /\ returned' => ttyd' # "started"]_vars

C26_Witness ==
    /\ returned
    /\ ttyd = "stopped"
    /\ endedBy = "ctx"
    /\ sent # <<>>
    /\ shots # <<>>

\* C27: no step of a run changes the configured Action sequence: its length,
\* its order and every field of every action are the same after the run,
\* whether it succeeded, failed or was cancelled.
C27_ActionsNeverMutated ==
    [][cfg'.Actions = cfg.Actions]_vars

C27_Witness ==
    /\ returned
    /\ endedBy \in {"ctx", "renderer"}
    /\ sent # <<>>
    /\ \E i \in 1..Len(cfg.Actions) :
           cfg.Actions[i].Kind = ActionKey /\ cfg.Actions[i].Repeat = 0

\* C28: whenever Run returns after it has started the periodic task (on
\* success, on a Renderer failure, on a cancellation seen in a wait or in a
\* check before a dispatch), the periodic task has terminated; after Run has
\* returned no periodic capture starts and no sequence number is consumed.
C28_PeriodicTaskDoneAtReturn ==
    [][/\ (returned' /\ stopChan' # "nil") => ptask' = "done"
       /\ returned => (~PeriodicCaptureStarts /\ screenshotCount' = screenshotCount)]_vars

\* C29: every input dispatch of the engine (a Type character, a Key repeat,
\* a Ctrl keystroke, a legacy keypress) comes directly after a cancellation
\* check made for it, so a dispatch is never started on a context that was
\* already cancelled when the previous wait or dispatch ended.
C29_CheckBeforeEveryDispatch ==
    \A k \in 1..Len(ops) :
        ops[k][1] = "send" =>
            /\ k > 1
            /\ ops[k - 1][1] = "check"
            /\ ops[k - 1][2] = ops[k][2]

\* a step in which Run, or a dispatch-failure path, executes
\* close(intervalStopChan)
ClosesStopChan ==
    \/ pc = "fail" /\ pc' = "failWait"
    \/ pc = "stopInterval" /\ pc' = "join"

\* C30: the stop channel is closed at most once on every path of Run (a
\* close is only ever executed on the open channel, and after a
\* dispatch-failure path has closed it Run returns without reaching the
\* close of normal completion), and it is never closed, nor made, when no
\* periodic task was started.
C30_StopChanClosedAtMostOnce ==
    [][/\ ClosesStopChan => (stopChan = "open" /\ stopChan' = "closed")
       /\ stopChan = "closed" => stopChan' = "closed"
       /\ cfg.ScreenshotInterval = 0 => stopChan' = "nil"]_vars

C30_Witness ==
    /\ ReturnedDispatchFailure
    /\ stopChan = "closed"
    /\ ptask = "done"

(***************************************************************************)
(* Snapshot files, key names, static capture, repeats, pacing.             *)
(***************************************************************************)
\* C31: at the end of a successful run the files written are exactly
\* screenshot_001 .. screenshot_N, N being the value of the counter: every
\* sequence number issued belongs to a snapshot that was written.
C31_FilesContiguous ==
    (returned /\ result = <<>>) =>
        files = {Sprintf03d(i) : i \in 1..screenshotCount}

Unmappable(c) == ~isCtrlKey(c) /\ ~KeyToKeyCode(c).ok

\* the engine is in, or has returned through, the failure path of the
\* character at index ci of the Type action at index ai
TypeCharFailed ==
    /\ pc \in {"fail", "failWait"}
    /\ cfg.Actions # <<>>
    /\ Cur.Kind = ActionType
    /\ ci <= Len(Cur.Text)

\* C33: each character of a Type action's Text is dispatched as one
\* keystroke, a space with the key code "Space" and any other printable
\* character with itself as key code; a character the key mapping does not
\* accept is never dispatched: it makes the dispatch fail, and the run ends
\* with the wrapped failure, not as Cancelled, after exactly the preceding
\* characters were sent.
C33_TypeCharactersDispatched ==
    /\ \A k \in DOMAIN sent :
          /\ ~sent[k].ctrl => KeyToKeyCode(sent[k].key).ok
          /\ (~sent[k].ctrl /\ isSinglePrintableASCII(sent[k].key)) =>
                sent[k].code = IF sent[k].key = <<" ">> THEN sSpace ELSE sent[k].key
    /\ (TypeCharFailed /\ Unmappable(Cur.Text[ci])) =>
          /\ SentKeys = Flatten(SubSeq(cfg.Actions, 1, ai - 1)) \o SubSeq(Cur.Text, 1, ci - 1)
          /\ endedBy = "renderer"
          /\ perr[1] = "send character"
          /\ ErrorsIs(perr, NotRecognized)
          /\ ~IsCancelled(perr)
          /\ returned => result = perr
    /\ (returned /\ result = <<>> /\ cfg.Actions # <<>>) => SentKeys = Flatten(cfg.Actions)

C33_Witness ==
    /\ returned
    /\ TypeCharFailed
    /\ Unmappable(Cur.Text[ci])
    /\ ci = 2
    /\ Len(sent) = 1
    /\ result = perr

\* neither a structured Action sequence nor legacy keys are configured
Static == cfg.Actions = <<>> /\ cfg.Keypresses = <<>>

\* C34: a static capture issues no Renderer input call and never enters an
\* action, a wait between inputs or a dispatch-failure path; it ends
\* unsuccessfully only through cancellation or a failing Renderer or file
\* system call, and when it succeeds it has made the initial capture, then
\* the periodic captures, then the final capture, with the periodic task
\* finished.
C34_StaticCapture ==
    Static =>
        /\ sent = <<>>
        /\ perr = <<>>
        /\ pc \in {"mkdir", "ttydStart", "navigate", "viewport", "waitTerm", "initName",
                   "initShot", "initCapturing", "spawn", "exec", "legacy", "stopInterval",
                   "join", "wait", "finalName", "finalShot", "finalCapturing"}
        /\ pc = "wait" => wk = "final"
        /\ (returned /\ result # <<>>) =>
              \/ IsCancelled(result) /\ ctxErr # <<>>
              \/ ErrorsIs(result, RendererBroke)
              \/ ErrorsIs(result, OsError)
        /\ (returned /\ result = <<>>) =>
              LET n == Len(shots) IN
              /\ n >= 2
              /\ shots[1].phase = "initial"
              /\ shots[n].phase = "final"
              /\ \A i \in 2..(n - 1) : shots[i].phase = "periodic"
              /\ {shots[1].name, shots[n].name} \subseteq files
              /\ cfg.ScreenshotInterval > 0 => ptask = "done"

C34_Witness ==
    /\ Static
    /\ returned /\ result = <<>>
    /\ Len(shots) >= 3
    /\ shots[2].phase = "periodic"
    /\ shots[2].name \in files

\* C35: a Key action whose Repeat is zero or negative is run as Repeat 1: its
\* steps are one cancellation check and one dispatch of the key, then the
\* wait of Delay when Delay > 0; the key is never dispatched zero times or
\* more than once, and all the steps are there once the action is over.
C35_NonPositiveRepeatIsOnce ==
    \A i \in ActionsOf(ActionKey) :
        cfg.Actions[i].Repeat <= 0 =>
            /\ IsPrefix(OpsAt(i), RepeatOps(i, 1) \o WaitOps(i, cfg.Actions[i].Delay))
            /\ ai > i =>
                  /\ OpsAt(i) = RepeatOps(i, 1) \o WaitOps(i, cfg.Actions[i].Delay)
                  /\ Len(SelectSeq(OpsAt(i), LAMBDA e : e[1] = "send")) = 1

C35_Witness ==
    /\ Len(cfg.Actions) = 3
    /\ cfg.Actions[1].Kind = ActionKey
    /\ cfg.Actions[1].Repeat = 0
    /\ ai = 2
    /\ OpsAt(1) = << <<"check", 1>>, <<"send", 1, sEnter>> >>

C35_WitnessNegative ==
    /\ Len(cfg.Actions) = 1
    /\ cfg.Actions[1].Repeat = -1
    /\ returned /\ result = <<>>
    /\ OpsAt(1) = << <<"check", 1>>, <<"send", 1, sDown>>, <<"wait", 1, 100>>, <<"elapsed", 1>> >>

\* the engine is in the Speed wait that follows the last character of a Type
\* action
InLastSpeedWait ==
    /\ pc = "wait" /\ wk = "speed"
    /\ cfg.Actions # <<>> /\ ai \in 1..Len(cfg.Actions)
    /\ Cur.Kind = ActionType /\ ci = Len(Cur.Text)

\* the Speed waits begun for the action at index i
SpeedWaits(i) == SelectSeq(OpsAt(i), LAMBDA e : e = <<"wait", i, cfg.Actions[i].Speed>>)

\* C36: a Type action of n characters with Speed > 0 makes exactly n
\* cancellable waits of Speed, one after each dispatched character, the last
\* one included; a cancellation that arrives while the engine is parked in
\* the Speed wait of the last character, which has been dispatched, makes Run
\* return the context's error.
C36_SpeedWaitAfterEveryCharacter ==
    /\ [](\A i \in ActionsOf(ActionType) :
            (cfg.Actions[i].Speed > 0 /\ cfg.Actions[i].Delay = 0) =>
                /\ \A k \in 1..Len(OpsAt(i)) :
                       (OpsAt(i)[k][1] = "send" /\ (k < Len(OpsAt(i)) \/ ai > i)) =>
                           /\ k < Len(OpsAt(i))
                           /\ OpsAt(i)[k + 1] = <<"wait", i, cfg.Actions[i].Speed>>
                /\ Len(SpeedWaits(i)) <= Len(cfg.Actions[i].Text)
                /\ ai > i => Len(SpeedWaits(i)) = Len(cfg.Actions[i].Text))
    /\ []((InLastSpeedWait /\ ~returned) =>
            /\ Len(SentKeys) >= ci
            /\ SentKeys[Len(SentKeys)] = Cur.Text[ci]
            /\ Len(SpeedWaits(ai)) = ci)
    /\ [][(InLastSpeedWait /\ ~returned /\ wstate = "wokeDone"
              /\ (wstate' # wstate \/ returned')) =>
             /\ returned'
             /\ result' = ctxErr
             /\ IsCancelled(result')
             /\ ai' = ai]_vars

C36_Witness ==
    /\ InLastSpeedWait /\ returned
    /\ wstate = "wokeDone"
    /\ IsCancelled(result)
    /\ ai = 2 /\ Len(Cur.Text) = 2
    /\ SentKeys = << <<"l">>, <<"s">> >>
    /\ Len(SpeedWaits(ai)) = 2
    /\ ops[Len(ops)] = <<"wait", ai, 50>>

\* the tokens the lexer returns from position p on, up to the end of input
RECURSIVE TokensFrom(_, _)
TokensFrom(in, p) ==
    LET t == nextToken(in, p) IN
    IF t.tok.kind = tokenEOF THEN <<>> ELSE <<t.tok>> \o TokensFrom(in, t.next)

\* the tokens the parser has moved past
Consumed(P) == SubSeq(P.toks, 1, Len(P.toks) - 2)

\* C37: Parse terminates.  From every position of the input a lexer step
\* either returns end-of-input or moves the position forward by at least one
\* byte and never past the end by more than the closing quote it looks for;
\* the parser's two tokens are always the last two the lexer returned, so no
\* token is dropped or read twice; every action appended to the result has
\* consumed at least one token, beginning with the token the action before
\* it stopped at, so there are never more actions than bytes; and when Parse
\* succeeds the consumed tokens are exactly the tokens of the input, in order,
\* none of them end-of-input.
C37_ParseTerminates ==
    /\ [](\A p \in 0..Len(input) :
            LET t == nextToken(input, p) IN
            \/ t.tok.kind = tokenEOF /\ t.next >= p
            \/ t.tok.kind # tokenEOF /\ t.next > p /\ t.next <= Len(input) + 1
                 /\ t.tok.position >= p /\ t.tok.position < t.next)
    /\ [](ppc # "new" =>
            /\ Len(parser.toks) >= 2
            /\ parser.curToken = parser.toks[Len(parser.toks) - 1]
            /\ parser.peekToken = parser.toks[Len(parser.toks)]
            /\ Len(pactions) <= Len(Consumed(parser))
            /\ Len(Consumed(parser)) <= Len(input)
            /\ IsPrefix(Consumed(parser), TokensFrom(input, 0)))
    /\ [][pactions' # pactions =>
            /\ pactions' = Append(pactions, pactions'[Len(pactions')])
            /\ IsPrefix(parser.toks, parser'.toks)
            /\ Len(parser'.toks) > Len(parser.toks)
            /\ parser.curToken.kind = tokenIdent
            /\ \A k \in 1..Len(Consumed(parser')) : parser'.toks[k].kind # tokenEOF]_vars
    /\ [](ParseSucceeded =>
            /\ Consumed(parser) = TokensFrom(input, 0)
            /\ parser.curToken.kind = tokenEOF
            /\ Len(ret.actions) <= Len(TokensFrom(input, 0)))

C37_Witness ==
    /\ ParseSucceeded
    /\ Len(ret.actions) = 2
    /\ Len(TokensFrom(input, 0)) = 3
    /\ Consumed(parser) = << token(tokenIdent, <<"T", "y", "p", "e">>, 0),
                             token(tokenString, <<"l", "s", " ", "-", "l", "a">>, 5),
                             token(tokenIdent, <<"E", "n", "t", "e", "r">>, 14) >>

\* the byte at offset p opens a quoted string that is never closed
Unterminated(in, p) ==
    /\ ch(in, p) \in {"'", "0x22"}
    /\ \A k \in (p + 1)..(Len(in) - 1) : ch(in, k) # ch(in, p)

\* Parse is at Type followed by a string token that runs to the end of input
AtTypeUnterminated ==
    /\ ppc = "loop"
    /\ ToLower(parser.curToken.literal) = sType /\ parser.curToken.kind = tokenIdent
    /\ parser.peekToken.kind = tokenString
    /\ Unterminated(input, parser.peekToken.position)

\* C38: a quoted string without its closing quote is a string token holding
\* every byte from after the opening quote to the end of input; a string
\* token ends only at a quote of the kind that opened it, so a quote of the
\* other kind is part of the text; and Type followed by an unterminated
\* string makes Parse append a Type action with that text, with no error.
C38_UnterminatedStringAccepted ==
    /\ [](\A p \in 0..(Len(input) - 1) : \A q \in {"'", "0x22"} :
            ch(input, p) = q =>
                LET t == nextToken(input, p) IN
                /\ t.tok.kind = tokenString /\ t.tok.position = p
                /\ \A k \in 1..Len(t.tok.literal) : t.tok.literal[k] # q
                /\ t.tok.literal = Bytes(input, p + 1, p + 1 + Len(t.tok.literal))
                /\ ch(input, p + 1 + Len(t.tok.literal)) \in {q, "0x00"}
                /\ Unterminated(input, p) =>
                      /\ t.tok.literal = Bytes(input, p + 1, Len(input))
                      /\ t.next > Len(input))
    /\ [][AtTypeUnterminated =>
            /\ ppc' = "loop"
            /\ ret' = NoResult
            /\ pactions' = Append(pactions,
                   TypeA(Bytes(input, parser.peekToken.position + 1, Len(input)), DefaultSpeed, 0))
            /\ parser'.curToken.kind = tokenEOF]_vars
    /\ []((ParseSucceeded /\ input = <<"T", "y", "p", "e", " ", "0x22", "i", "t", "'", "s", "0x22">>) =>
            ret.actions = << TypeA(<<"i", "t", "'", "s">>, DefaultSpeed, 0) >>)

C38_Witness ==
    /\ ParseSucceeded
    /\ Unterminated(input, 5)
    /\ ret.actions = << TypeA(<<"a", "0x22", "b", " ", "c">>, DefaultSpeed, 0) >>

\* an ASCII lowercase letter as its uppercase letter, any other byte as it is
UpperByte(b) ==
    IF b \notin DOMAIN OtherBytes /\ Ord(b) >= 97 /\ Ord(b) <= 122 THEN Chr(Ord(b) - 32) ELSE b

\* the one-based indices of the bytes of in that lie in an identifier token
IdentBytes(in) ==
    LET toks == TokensFrom(in, 0) IN
    {j \in 1..Len(in) : \E k \in 1..Len(toks) :
        /\ toks[k].kind = tokenIdent
        /\ j > toks[k].position /\ j <= toks[k].position + Len(toks[k].literal)}

\* the script in with its identifiers in lowercase, in uppercase, and with
\* the first letter of each identifier in the other case
CaseVariants(in) ==
    LET toks == TokensFrom(in, 0)
        idb == IdentBytes(in)
        first == {toks[k].position + 1 : k \in {i \in 1..Len(toks) : toks[i].kind = tokenIdent}}
    IN { [j \in 1..Len(in) |-> IF j \in idb THEN LowerByte(in[j]) ELSE in[j]],
         [j \in 1..Len(in) |-> IF j \in idb THEN UpperByte(in[j]) ELSE in[j]],
         [j \in 1..Len(in) |-> IF j \notin first THEN in[j]
                               ELSE IF LowerByte(in[j]) = in[j] THEN UpperByte(in[j])
                               ELSE LowerByte(in[j])] }

\* a and b are the same script up to the letter case of identifiers: they
\* have the same tokens at the same positions, identifiers spelled alike up
\* to case and every other token spelled alike
SameUpToIdentCase(a, b) ==
    LET ta == TokensFrom(a, 0)
        tb == TokensFrom(b, 0)
    IN /\ Len(a) = Len(b)
       /\ \A j \in 1..Len(a) : a[j] # b[j] => j \in IdentBytes(a) \cap IdentBytes(b)
       /\ Len(ta) = Len(tb)
       /\ \A k \in 1..Len(ta) :
             /\ ta[k].kind = tb[k].kind /\ ta[k].position = tb[k].position
             /\ IF ta[k].kind = tokenIdent
                THEN ToLower(ta[k].literal) = ToLower(tb[k].literal)
                ELSE ta[k].literal = tb[k].literal

\* the results r and s of Parse agree in everything but the spelling of key
\* names and of the identifier quoted in an error
SameParse(r, s) ==
    /\ (r.err = NoParseError) = (s.err = NoParseError)
    /\ r.err.Position = s.err.Position
    /\ r.err.Message = s.err.Message
    /\ Len(r.actions) = Len(s.actions)
    /\ \A i \in 1..Len(r.actions) :
          /\ [r.actions[i] EXCEPT !.Key = <<>>] = [s.actions[i] EXCEPT !.Key = <<>>]
          /\ ToLower(r.actions[i].Key) = ToLower(s.actions[i].Key)
          /\ r.actions[i].Kind = ActionCtrl => r.actions[i].Key = s.actions[i].Key

\* C39: Parse does not depend on the letter case of identifiers.  Parsing the
\* script with its identifiers in another case is accepted or rejected as the
\* script is, at the same position with the same kind of error, and yields
\* the same kinds, texts, durations, speeds, delays and repeats; the key of a
\* Ctrl action is in lowercase whatever the case written, and the name of a
\* Key action is an identifier of the script exactly as it is written there.
C39_IdentifierCaseIgnored ==
    ppc = "done" =>
        /\ ret = Parse(input)
        /\ \A v \in CaseVariants(input) :
              SameUpToIdentCase(input, v) => SameParse(ret, Parse(v))
        /\ \A i \in 1..Len(ret.actions) :
              /\ ret.actions[i].Kind = ActionCtrl =>
                    ret.actions[i].Key = ToLower(ret.actions[i].Key)
              /\ ret.actions[i].Kind = ActionKey =>
                    \E k \in 1..Len(parser.toks) :
                        /\ parser.toks[k].kind = tokenIdent
                        /\ parser.toks[k].literal = ret.actions[i].Key
                        /\ Bytes(input, parser.toks[k].position,
                                 parser.toks[k].position + Len(ret.actions[i].Key))
                             = ret.actions[i].Key

C39_Witness ==
    /\ ParseSucceeded
    /\ input = <<"T", "A", "B">>
    /\ <<"t", "a", "b">> \in CaseVariants(input)
    /\ SameUpToIdentCase(input, <<"t", "a", "b">>)
    /\ ret.actions = << KeyA(<<"T", "A", "B">>, 0, 1) >>
    /\ Parse(<<"t", "a", "b">>).actions = << KeyA(<<"t", "a", "b">>, 0, 1) >>

C39_WitnessCtrl ==
    /\ ParseSucceeded
    /\ input = <<"c", "t", "r", "l", "+", "d">>
    /\ Parse(<<"C", "T", "R", "L", "+", "D">>) = ret
    /\ ret.actions = << CtrlA(<<"d">>) >>

====
